---- MODULE Spec2Model ----
(***************************************************************************)
(* The FINALS power-line inspection pipeline (Arelvee/Drone):              *)
(*   camera.py   CameraManager      capture thread, bounded frame queue    *)
(*   detector.py PowerLineDetector  frame-skip scheduler, aggregation      *)
(*   gui.py      PowerLineInspectorGUI  session control, processing thread *)
(*                                                                         *)
(* Threads are interleaved at the granularity of their reads and writes of *)
(* shared attributes.  Wall-clock time (sleeps, FPS counters, timestamps)  *)
(* is not part of the state: a sleep is a point where other threads run.   *)
(***************************************************************************)
EXTENDS Integers, Sequences, FiniteSets, TLC

---------------------------------------------------------------------------
(* Bounds of the model *)

\* number of successful cap.read() calls in one behaviour
MaxReads == 3
\* number of capture handles open_camera may open in one behaviour
MaxOpens == 2
\* number of frames of the video file
FileLen == 2

(* Program constants *)

\* Config.CONFIDENCE_THRESHOLD (0.10), in thousandths
CONFIDENCE_THRESHOLD == 100
\* Config.TARGET_FPS
TARGET_FPS == 30
\* Config.CAMERA_WIDTH and Config.CAMERA_HEIGHT: the size of a frame
CAMERA_WIDTH == 640
CAMERA_HEIGHT == 480
\* Config.FRAME_QUEUE_SIZE
FRAME_QUEUE_SIZE == 2
\* Config.DETECTION_INTERVAL
DETECTION_INTERVAL == 3
\* len(Config.CAMERA_BACKENDS)
NumBackends == 4
\* range(3): the camera indices open_camera tries with each backend
NumIndices == 3

\* the threads that threading.Thread(target=self._capture_loop) can start
CapThreads == 1..2
\* the threads that threading.Thread(target=self._processing_loop) can start
ProcThreads == 1..2

Handles == 1..MaxOpens

Max(a, b) == IF a >= b THEN a ELSE b
Min(a, b) == IF a <= b THEN a ELSE b

---------------------------------------------------------------------------
VARIABLES
    \* CameraManager
    cam_running,      \* CameraManager.running
    cap,              \* CameraManager.cap: None or a VideoCapture handle
    handles,          \* the VideoCapture objects opened so far
    is_video_file,    \* CameraManager.is_video_file
    frame_queue,      \* CameraManager.frame_queue (queue.Queue(maxsize=2))
    capT,             \* the capture threads: position and the frame read
    readSeq,          \* number of frames read from a source so far
    \* PowerLineInspectorGUI
    gui_running,      \* PowerLineInspectorGUI.running
    guiPc,            \* what the Tk thread is doing
    open_attempt,     \* in open_camera: the attempt that is next (0: the file)
    start_btn,        \* start_btn state is "normal"
    stop_btn,         \* stop_btn state is "normal"
    gui_after,        \* update_gui callbacks pending in Tk's after queue
    interval_var,     \* interval_var: the text of the detection-interval spin box
    procT,            \* the processing threads: position and locals
    \* PowerLineDetector
    processing_enabled,
    skip_factor,
    frame_counter,
    current_detection,
    \* history
    delivered,        \* the last frame get_frame returned, and whether every
                      \* frame it returned so far was read after the one before
    hist,             \* the calls of process_frame since the last counter reset
    \* extract_yolo_detections taken alone
    yolo_result,      \* result.boxes: the boxes of the result passed in
    extracted,        \* the DetectionState returned, once it has returned
    \* set up before a session
    config,           \* the attributes of class Config that are validated
    app,              \* how far main.py has come building the application
    target_fps,       \* CameraManager.target_fps
    \* the programs beside the FINALS pipeline
    try1,             \* try1.py: the attributes of YOLOPowerLineInspector and
                      \* the positions of its threads
    runcam,           \* runcam.py: the attributes of RunCamWifiLink2
    temp_runs         \* two runs of simulate_temperature side by side

camVars == <<cam_running, cap, handles, is_video_file, frame_queue, capT, readSeq>>
guiVars == <<gui_running, guiPc, open_attempt, start_btn, stop_btn, gui_after>>
detVars == <<processing_enabled, skip_factor, frame_counter, current_detection>>
setupVars == <<config, app>>
\* what neither a worker thread nor a handler of a running session writes
otherVars == <<try1, runcam, temp_runs>>
pureVars == <<yolo_result, extracted, setupVars, otherVars>>
vars == <<camVars, guiVars, interval_var, procT, detVars, delivered, hist, pureVars, target_fps>>

\* what a step of a capture thread leaves alone
nonCamVars == <<guiVars, interval_var, procT, detVars, delivered, hist, pureVars, target_fps>>
\* what the handlers of the detector's controls leave alone
handlerFrame ==
    <<camVars, gui_running, open_attempt, start_btn, stop_btn, gui_after, procT, delivered,
      pureVars, target_fps>>
\* what a step inside process_frame leaves alone
nonDetVars == <<camVars, guiVars, interval_var, delivered, hist, pureVars, target_fps>>

---------------------------------------------------------------------------
(* PowerLineDetector: the DetectionState records (detector.py)             *)
(*                                                                         *)
(* A confidence is an integer number of thousandths (0..1000), so that the *)
(* format "{:.1%}" is exact; a temperature is an integer number of tenths  *)
(* of a degree, which is what round(x, 1) returns.  The "timestamp" field  *)
(* is wall-clock time and is left out of the record.                       *)

\* Config.CLASS_NAMES.get(class_id, f"Class_{class_id}")
ClassName(class_id) ==
    CASE class_id = 0 -> "1-1A-Fired Wedge Joint-BARE"
      [] class_id = 1 -> "1-1B-Fired Wedge Joint-COVERED"
      [] class_id = 2 -> "2-2A-Hummer Driven Wedge Joint-BARE"
      [] class_id = 3 -> "2-2B-Hummer Driven Wedge Joint-COVERED"
      [] OTHER -> "Class_" \o ToString(class_id)

\* f"{confidence:.1%}" for a confidence of c thousandths
FormatPercent(c) == ToString(c \div 10) \o "." \o ToString(c % 10) \o "%"

\* f"{temperature:.1f}" for a temperature of t tenths of a degree
FormatTenths(t) == ToString(t \div 10) \o "." \o ToString(t % 10)

\* PowerLineDetector.get_no_detection_info
get_no_detection_info ==
    [label |-> "No Detection",
     confidence |-> "0%",
     temperature |-> "0.0 C",
     multiple_info |-> "",
     all_detections |-> <<>>,
     boxes_xyxy |-> <<>>]

\* a max() that returns the first element
FirstOfSeq(s) == s[1]

\* Python's max() over a non-empty list
MaxOfSeq(s) == CHOOSE m \in {s[i] : i \in 1..Len(s)} : \A i \in 1..Len(s) : m >= s[i]

\* the boxes of a result whose fields parse: the per-box try/except of
\* extract_yolo_detections skips a box that raises (ok = FALSE)
ParsedBoxes(result) == SelectSeq(result, LAMBDA b : b.ok)

\* a summary that lists nothing
NoMultipleLines(boxes, i) == ""

\* "\n".join(f"{i}. {label}: {conf:.1%} - {temp:.1f}C" for i, ... in enumerate(..., 1))
RECURSIVE MultipleLines(_, _)
MultipleLines(boxes, i) ==
    IF i > Len(boxes) THEN ""
    ELSE ToString(i) \o ". " \o ClassName(boxes[i].cls) \o ": "
            \o FormatPercent(boxes[i].conf) \o " - " \o FormatTenths(boxes[i].temp) \o "C"
            \o (IF i < Len(boxes) THEN "\n" ELSE "")
            \o MultipleLines(boxes, i + 1)

\* PowerLineDetector.extract_yolo_detections(result); result is the sequence
\* result.boxes (None and the empty Boxes take the same branch)
extract_yolo_detections(result) ==
    LET boxes == ParsedBoxes(result)
        n == Len(boxes)
        confidences == [i \in 1..n |-> boxes[i].conf]
        temperatures == [i \in 1..n |-> boxes[i].temp]
    IN  IF n = 0 THEN get_no_detection_info
        ELSE [label |-> IF n = 1 THEN ClassName(boxes[1].cls)
                        ELSE "Multiple Detections (" \o ToString(n) \o ")",
              confidence |-> FormatPercent(IF n = 1 THEN confidences[1]
                                           ELSE MaxOfSeq(confidences)),
              temperature |-> FormatTenths(IF n = 1 THEN temperatures[1]
                                           ELSE MaxOfSeq(temperatures)) \o " C",
              multiple_info |-> IF n = 1 THEN "" ELSE MultipleLines(boxes, 1),
              all_detections |-> [i \in 1..n |->
                    <<ClassName(boxes[i].cls), boxes[i].conf, boxes[i].cls, boxes[i].temp>>],
              boxes_xyxy |-> [i \in 1..n |-> boxes[i].xyxy]]

\* PowerLineDetector.draw_yolo_boxes: the overlay drawn on a copy of the frame,
\* one box per (coords, detection) pair
draw_yolo_boxes(detection_info) ==
    [i \in 1..Min(Len(detection_info.boxes_xyxy), Len(detection_info.all_detections)) |->
        detection_info.boxes_xyxy[i]]

\* an unannotated frame carries no overlay
NoOverlay == <<>>

\* the image buffers an iteration of the processing loop handles: the frame
\* get_frame returned, the snapshot and the frame the boxes are drawn on
Buffers == {"frame", "snapshot", "annotated"}

\* a copy that is the buffer copied
FrameAlias(buffer, fresh) == buffer

\* frame.copy() (gui.py line 783, detector.py line 232): a buffer of its own
FrameCopy(buffer, fresh) == fresh

\* no frame in hand
NoBuffers ==
    [current_frame |-> "none", annotated_frame |-> "none",
     drawn |-> [b \in Buffers |-> NoOverlay]]

\* gui.py lines 776-783: a frame from the queue, and
\* self.current_frame = frame.copy()
TakeSnapshot ==
    [current_frame |-> FrameCopy("frame", "snapshot"), annotated_frame |-> "none",
     drawn |-> [b \in Buffers |-> NoOverlay]]

\* detector.py lines 122 and 232-274: annotated_frame = frame.copy() and the
\* boxes are drawn into annotated_frame
DrawnOnCopy(bufs, overlay) ==
    LET annotated_frame == FrameCopy("frame", "annotated")
    IN  [bufs EXCEPT !.annotated_frame = annotated_frame,
                     !.drawn[annotated_frame] = bufs.drawn["frame"] \o overlay]

\* detector.py lines 93, 130 and 134: annotated_frame = frame
Forwarded(bufs) == [bufs EXCEPT !.annotated_frame = "frame"]

---------------------------------------------------------------------------
(* CameraManager (camera.py)                                               *)

NoneCap == [tag |-> "None", h |-> 0]
\* a VideoCapture that did not open
UnopenedCap == [tag |-> "Unopened", h |-> 0]
HandleCap(h) == [tag |-> "Handle", h |-> h]

\* self.cap.isOpened() for a cap that is not None
IsOpened(c) == c.tag = "Handle" /\ handles[c.h].state = "open"

\* queue.Queue.full()
Full(q) == Len(q) >= FRAME_QUEUE_SIZE

CapAt(t, pc) == capT[t].pc = pc
CapGoto(t, pc, frame) ==
    capT' = [capT EXCEPT ![t] = [pc |-> pc, frame |-> frame, enq |-> "none"]]
\* the thread is past lines 112-116 with the frame it read; enq is how it left
\* them: "put" (line 114 returned), "skipped" (line 112 found the queue full)
\* or "timeout" (queue.Full caught at line 115)
CapPace(t, enq) ==
    capT' = [capT EXCEPT ![t] = [pc |-> "c_pace", frame |-> capT[t].frame, enq |-> enq]]

\* line 88, first two conjuncts: while self.running and self.cap
CapCheckRunning(t) ==
    /\ CapAt(t, "c_running")
    /\ CapGoto(t, IF cam_running /\ cap.tag # "None" THEN "c_isopened" ELSE "done", 0)
    /\ UNCHANGED <<cam_running, cap, handles, is_video_file, frame_queue, readSeq>>
    /\ UNCHANGED nonCamVars

\* line 88, third conjunct: and self.cap.isOpened(); self.cap is read again,
\* and the condition is outside the try block: on None the AttributeError
\* ends the thread
CapCheckOpened(t) ==
    /\ CapAt(t, "c_isopened")
    /\ CapGoto(t, IF cap.tag = "None" THEN "crashed"
                  ELSE IF IsOpened(cap) THEN "c_read" ELSE "done", 0)
    /\ UNCHANGED <<cam_running, cap, handles, is_video_file, frame_queue, readSeq>>
    /\ UNCHANGED nonCamVars

\* line 92: success, frame = self.cap.read() returns a frame
CapReadFrame(t) ==
    /\ CapAt(t, "c_read")
    /\ IsOpened(cap)
    /\ handles[cap.h].kind = "file" => handles[cap.h].pos < FileLen
    /\ readSeq < MaxReads
    /\ readSeq' = readSeq + 1
    /\ handles' = IF handles[cap.h].kind = "file"
                  THEN [handles EXCEPT ![cap.h].pos = @ + 1]
                  ELSE handles
    /\ CapGoto(t, "c_full", readSeq + 1)
    /\ UNCHANGED <<cam_running, cap, is_video_file, frame_queue>>
    /\ UNCHANGED nonCamVars

\* line 92: the read fails (end of the file, a released or unopened capture,
\* a transient camera failure), or self.cap is None and the AttributeError is
\* caught at line 131
CapReadFails(t) ==
    /\ CapAt(t, "c_read")
    /\ \/ /\ cap.tag = "None"
          /\ CapGoto(t, "c_running", 0)
       \/ /\ cap.tag # "None"
          /\ IF IsOpened(cap)
             THEN handles[cap.h].kind = "camera" \/ handles[cap.h].pos >= FileLen
             ELSE TRUE
          /\ CapGoto(t, "c_fail", 0)
    /\ UNCHANGED <<cam_running, cap, handles, is_video_file, frame_queue, readSeq>>
    /\ UNCHANGED nonCamVars

\* a test that never finds the end of the file
NeverAtEnd(c) == FALSE

\* lines 95-96: self.is_video_file and POS_FRAMES >= FRAME_COUNT.  get() on a
\* capture that is not an open file returns 0 for both properties; set() has
\* no effect on it, and a camera delivers no frame count.
AtEndOfFile(c) ==
    /\ is_video_file
    /\ IsOpened(c)
    /\ handles[c.h].kind = "file"
    /\ handles[c.h].pos >= FileLen

\* lines 93-99: after a failed read, a file at its end is rewound to frame 0
\* and the loop continues at once; anything else goes on to the sleep of
\* line 100.  On cap None the AttributeError is caught at line 131, which
\* sleeps too.
CapHandleFailure(t) ==
    /\ CapAt(t, "c_fail")
    /\ IF cap.tag # "None" /\ AtEndOfFile(cap)
       THEN /\ handles' = [handles EXCEPT ![cap.h].pos = 0]
            /\ CapGoto(t, "c_running", 0)
       ELSE /\ handles' = handles
            /\ CapGoto(t, "c_retry", 0)
    /\ UNCHANGED <<cam_running, cap, is_video_file, frame_queue, readSeq>>
    /\ UNCHANGED nonCamVars

\* lines 100-101: time.sleep(0.01); continue
CapRetrySleep(t) ==
    /\ CapAt(t, "c_retry")
    /\ CapGoto(t, "c_running", 0)
    /\ UNCHANGED <<cam_running, cap, handles, is_video_file, frame_queue, readSeq>>
    /\ UNCHANGED nonCamVars

\* line 112: if not self.frame_queue.full()
CapCheckFull(t) ==
    /\ CapAt(t, "c_full")
    /\ IF Full(frame_queue)
       THEN CapPace(t, "skipped")
       ELSE CapGoto(t, "c_put", capT[t].frame)
    /\ UNCHANGED <<cam_running, cap, handles, is_video_file, frame_queue, readSeq>>
    /\ UNCHANGED nonCamVars

\* a put that ignores maxsize (queue.Queue(maxsize=0))
QueuePutUnbounded(q, frame) == Append(q, frame)

\* a put that makes room by evicting the oldest item
QueuePutDropOldest(q, frame) ==
    IF Len(q) < FRAME_QUEUE_SIZE THEN Append(q, frame) ELSE Append(Tail(q), frame)

\* queue.Queue.put(item, timeout=0.001): inserts at the tail when there is
\* room; on a queue still full when the timeout ends raises queue.Full
QueuePut(q, frame) == IF Len(q) < FRAME_QUEUE_SIZE THEN Append(q, frame) ELSE q

\* lines 113-116: self.frame_queue.put(frame.copy(), timeout=0.001), with
\* queue.Full caught
CapPut(t) ==
    /\ CapAt(t, "c_put")
    /\ frame_queue' = QueuePut(frame_queue, capT[t].frame)
    /\ CapPace(t, IF Full(frame_queue) THEN "timeout" ELSE "put")
    /\ UNCHANGED <<cam_running, cap, handles, is_video_file, readSeq>>
    /\ UNCHANGED nonCamVars

\* lines 118-130: the pacing sleep, then the next iteration
CapSleep(t) ==
    /\ CapAt(t, "c_pace")
    /\ CapGoto(t, "c_running", 0)
    /\ UNCHANGED <<cam_running, cap, handles, is_video_file, frame_queue, readSeq>>
    /\ UNCHANGED nonCamVars

CaptureStep(t) ==
    \/ CapCheckRunning(t)
    \/ CapCheckOpened(t)
    \/ CapReadFrame(t)
    \/ CapReadFails(t)
    \/ CapHandleFailure(t)
    \/ CapRetrySleep(t)
    \/ CapCheckFull(t)
    \/ CapPut(t)
    \/ CapSleep(t)

\* the slot a new capture thread takes: a thread that ended leaves its slot
FreeCapThreads(slots) ==
    {t \in slots : capT[t].pc \in {"unstarted", "done", "crashed"}}
NewCapThread(slots) ==
    CHOOSE t \in FreeCapThreads(slots) : \A u \in FreeCapThreads(slots) : t <= u

FreeHandles == {h \in Handles : handles[h].state = "unused"}
NewHandle == CHOOSE h \in FreeHandles : \A g \in FreeHandles : h <= g

\* a stop_capture that releases the capture and keeps the reference to it
stop_capture_keeps_cap ==
    /\ cam_running' = FALSE
    /\ handles' = IF cap.tag = "Handle"
                  THEN [handles EXCEPT ![cap.h].state = "released", ![cap.h].releases = @ + 1]
                  ELSE handles
    /\ cap' = cap
    /\ frame_queue' = <<>>
    /\ UNCHANGED <<is_video_file, capT, readSeq>>

\* CameraManager.stop_capture; releases counts the calls of release() on
\* a VideoCapture
stop_capture ==
    /\ cam_running' = FALSE
    /\ handles' = IF cap.tag = "Handle"
                  THEN [handles EXCEPT ![cap.h].state = "released", ![cap.h].releases = @ + 1]
                  ELSE handles
    /\ cap' = NoneCap
    /\ frame_queue' = <<>>
    /\ UNCHANGED <<is_video_file, capT, readSeq>>

\* CameraManager.get_frame: frame_queue.get_nowait(), None (0) when empty
get_frame_result(q) == IF q = <<>> THEN 0 ELSE Head(q)
get_frame_queue(q) == IF q = <<>> THEN q ELSE Tail(q)

---------------------------------------------------------------------------
(* PowerLineDetector.process_frame and the setters (detector.py), run by   *)
(* a processing thread p.  The thread's locals are procT[p]:               *)
(*   frame    the frame passed in (0: none)                                *)
(*   tmp      the value of frame_counter loaded for "+= 1" and for "%"     *)
(*   info     detection_info (the second element of the returned pair)     *)
(*   overlay  the boxes drawn on annotated_frame (the first element)       *)
(*   bufs     the image buffers of the frame in hand: which buffer          *)
(*            self.current_frame and annotated_frame refer to, and the      *)
(*            boxes drawn into each buffer                                  *)

ProcAt(p, pc) == procT[p].pc = pc
ProcSetBufs(p, pc, frame, tmp, info, overlay, path, bufs) ==
    procT' = [procT EXCEPT ![p] = [pc |-> pc, frame |-> frame, tmp |-> tmp,
                                   info |-> info, overlay |-> overlay, path |-> path,
                                   bufs |-> bufs]]
ProcSet(p, pc, frame, tmp, info, overlay, path) ==
    ProcSetBufs(p, pc, frame, tmp, info, overlay, path, procT[p].bufs)
ProcGoto(p, pc) == procT' = [procT EXCEPT ![p].pc = pc]

\* the return statements of process_frame: the pair (annotated_frame,
\* detection_info) and the path the call took: "disabled" (line 93),
\* "skipped" (lines 132-135), "inferred" (lines 116-122), "failed" (128-131)
PFReturn(p, info, overlay, path) ==
    ProcSetBufs(p, "pf_return", procT[p].frame, 0, info, overlay, path,
                IF path = "inferred"
                THEN DrawnOnCopy(procT[p].bufs, overlay)
                ELSE Forwarded(procT[p].bufs))

\* a frame that is forwarded with no overlay blanks the boxes shown before
BlankedInfo == get_no_detection_info

\* lines 93 and 135: detection_info = self.current_detection
ReusedDetection == current_detection

\* reading the counter before it is incremented
ShouldProcessBeforeIncrement(counter, factor) == (counter - 1) % factor = 0

\* line 97: should_process = (self.frame_counter % self.skip_factor == 0)
ShouldProcess(counter, factor) == counter % factor = 0

\* a process_frame that counts the frame before it looks at processing_enabled
PFCountsBeforeCheck(p) ==
    /\ ProcAt(p, "pf_enabled")
    /\ IF processing_enabled
       THEN ProcGoto(p, "pf_load") /\ UNCHANGED detVars
       ELSE /\ PFReturn(p, ReusedDetection, NoOverlay, "disabled")
            /\ frame_counter' = frame_counter + 1
            /\ UNCHANGED <<processing_enabled, skip_factor, current_detection>>
    /\ UNCHANGED nonDetVars

\* lines 91-93: if not self.processing_enabled: return frame, self.current_detection
PFCheckEnabled(p) ==
    /\ ProcAt(p, "pf_enabled")
    /\ IF processing_enabled
       THEN ProcGoto(p, "pf_load")
       ELSE PFReturn(p, ReusedDetection, NoOverlay, "disabled")
    /\ UNCHANGED detVars
    /\ UNCHANGED nonDetVars

\* line 96, self.frame_counter += 1: the load
PFLoadCounter(p) ==
    /\ ProcAt(p, "pf_load")
    /\ procT' = [procT EXCEPT ![p].pc = "pf_store", ![p].tmp = frame_counter]
    /\ UNCHANGED detVars
    /\ UNCHANGED nonDetVars

\* line 96, self.frame_counter += 1: the store
PFStoreCounter(p) ==
    /\ ProcAt(p, "pf_store")
    /\ frame_counter' = procT[p].tmp + 1
    /\ procT' = [procT EXCEPT ![p].pc = "pf_should", ![p].tmp = 0]
    /\ UNCHANGED <<processing_enabled, skip_factor, current_detection>>
    /\ UNCHANGED nonDetVars

\* line 97: self.frame_counter is loaded (before self.skip_factor)
PFLoadForModulus(p) ==
    /\ ProcAt(p, "pf_should")
    /\ procT' = [procT EXCEPT ![p].pc = "pf_modulus", ![p].tmp = frame_counter]
    /\ UNCHANGED detVars
    /\ UNCHANGED nonDetVars

\* lines 97-99 and 132-135: the modulus; a frame that is not processed
\* returns the frame as it is with self.current_detection
PFDecide(p) ==
    /\ ProcAt(p, "pf_modulus")
    /\ IF ShouldProcess(procT[p].tmp, skip_factor)
       THEN procT' = [procT EXCEPT ![p].pc = "pf_infer", ![p].tmp = 0]
       ELSE PFReturn(p, ReusedDetection, NoOverlay, "skipped")
    /\ UNCHANGED detVars
    /\ UNCHANGED nonDetVars

\* lines 116-126 after self.model(...) has returned `results`:
\* what is stored in self.current_detection
StoredDetection(results) ==
    IF results # <<>> THEN extract_yolo_detections(results[1]) ELSE get_no_detection_info

\* lines 116-126: the locals after the call: detection_info is assigned only
\* in the branch that has a result object
ReturnedOverlay(results) ==
    IF results # <<>> THEN draw_yolo_boxes(extract_yolo_detections(results[1])) ELSE NoOverlay

\* lines 105-126: self.model(...) returns; results is the list of result
\* objects (one per image), each a sequence of boxes.  With no result object
\* detection_info is never bound and line 147 raises UnboundLocalError, which
\* leaves process_frame.
PFInferReturns(p, results) ==
    /\ ProcAt(p, "pf_infer")
    /\ current_detection' = StoredDetection(results)
    /\ IF results # <<>>
       THEN PFReturn(p, extract_yolo_detections(results[1]), ReturnedOverlay(results),
                     "inferred")
       ELSE ProcSet(p, "pf_raised", procT[p].frame, 0, get_no_detection_info, NoOverlay,
                    "inferred")
    /\ UNCHANGED <<processing_enabled, skip_factor, frame_counter>>
    /\ UNCHANGED nonDetVars

\* an except branch that publishes the sentinel
InferenceFailedBlanks(p) ==
    /\ PFReturn(p, get_no_detection_info, NoOverlay, "failed")
    /\ current_detection' = get_no_detection_info
    /\ UNCHANGED <<processing_enabled, skip_factor, frame_counter>>

\* lines 128-131: the detector call raises: the frame is returned as it is
\* with self.current_detection
InferenceFailed(p) ==
    /\ PFReturn(p, current_detection, NoOverlay, "failed")
    /\ UNCHANGED detVars

PFInferRaises(p) ==
    /\ ProcAt(p, "pf_infer")
    /\ InferenceFailed(p)
    /\ UNCHANGED nonDetVars

---------------------------------------------------------------------------
(* PowerLineDetector: the setters, called on the Tk thread.  Each is two   *)
(* writes; the processing thread runs between them.                        *)

\* a clamp that forgets the upper limit
ClampLowerOnly(interval) == Max(1, interval)

\* line 340: max(1, min(10, interval))
ClampInterval(interval) == Max(1, Min(10, interval))

\* set_processing_enabled, line 331: self.processing_enabled = enabled;
\* with enabled true the call returns
SetProcessingFlag(enabled) ==
    /\ guiPc = "idle"
    /\ processing_enabled' = enabled
    /\ guiPc' = IF enabled THEN "idle" ELSE "disable_reset"
    /\ UNCHANGED <<skip_factor, frame_counter, current_detection>>

\* a reset that blanks the label of the published record in place
DisableBlanksLabelInPlace ==
    /\ guiPc = "disable_reset"
    /\ current_detection' = [current_detection EXCEPT !.label = "No Detection"]
    /\ guiPc' = "idle"
    /\ UNCHANGED <<processing_enabled, skip_factor, frame_counter>>

\* set_processing_enabled(False), line 336:
\* self.current_detection = self.get_no_detection_info(), and the call returns
DisableResetsDetection ==
    /\ guiPc = "disable_reset"
    /\ current_detection' = get_no_detection_info
    /\ guiPc' = "idle"
    /\ UNCHANGED <<processing_enabled, skip_factor, frame_counter>>

\* set_detection_interval(interval), line 340
SetIntervalFactor(interval) ==
    /\ guiPc = "idle"
    /\ skip_factor' = ClampInterval(interval)
    /\ guiPc' = "interval_reset"
    /\ UNCHANGED <<processing_enabled, frame_counter, current_detection>>

\* set_detection_interval, line 341: self.frame_counter = 0, and the call returns
SetIntervalResetsCounter ==
    /\ guiPc = "interval_reset"
    /\ frame_counter' = 0
    /\ guiPc' = "idle"
    /\ UNCHANGED <<processing_enabled, skip_factor, current_detection>>

---------------------------------------------------------------------------
(* PowerLineDetector.process_frame as one step: the whole call (lines      *)
(* 87-147), for a caller that no other access to the detector interleaves  *)
(* with.  outcome.raised: self.model raises; otherwise it returns          *)
(* outcome.results.                                                        *)

WillInfer == processing_enabled /\ ShouldProcess(frame_counter + 1, skip_factor)

\* the detector's attributes after the call and what the call returns;
\* raised: the call ends in the UnboundLocalError of line 147
process_frame(outcome) ==
    IF WillInfer /\ ~outcome.raised
    THEN [counter |-> frame_counter + 1,
          detection |-> StoredDetection(outcome.results),
          raised |-> outcome.results = <<>>,
          info |-> StoredDetection(outcome.results),
          overlay |-> ReturnedOverlay(outcome.results)]
    ELSE [counter |-> IF processing_enabled THEN frame_counter + 1 ELSE frame_counter,
          detection |-> current_detection,
          raised |-> FALSE,
          info |-> current_detection,
          overlay |-> NoOverlay]

---------------------------------------------------------------------------
(* PowerLineInspectorGUI (gui.py): the processing thread                   *)

\* a loop that does not look at the flag (while True)
ProcLoopsForever(p) ==
    /\ ProcAt(p, "p_loop")
    /\ ProcGoto(p, "p_get")
    /\ UNCHANGED <<camVars, guiVars, interval_var, detVars, delivered, hist, pureVars, target_fps>>

\* line 774: while self.running
ProcCheckRunning(p) ==
    /\ ProcAt(p, "p_loop")
    /\ ProcGoto(p, IF gui_running THEN "p_get" ELSE "done")
    /\ UNCHANGED <<camVars, guiVars, interval_var, detVars, delivered, hist, pureVars, target_fps>>

\* the record of the frames get_frame has returned
Deliver(d, frame) == [last |-> frame, in_order |-> d.in_order /\ frame > d.last]

\* lines 775-802, one iteration: frame = self.camera.get_frame(); on None
\* sleep and continue; otherwise process_frame(frame), the counters, the
\* database record and root.after(0, self._update_detection_display, ...);
\* an exception raised on the way is logged (lines 800-802)
ProcIteration(p, outcome) ==
    /\ ProcAt(p, "p_get")
    /\ frame_queue' = get_frame_queue(frame_queue)
    /\ IF get_frame_result(frame_queue) = 0
       THEN UNCHANGED <<delivered, detVars>>
       ELSE /\ delivered' = Deliver(delivered, get_frame_result(frame_queue))
            /\ frame_counter' = process_frame(outcome).counter
            /\ current_detection' = process_frame(outcome).detection
            /\ UNCHANGED <<processing_enabled, skip_factor>>
    /\ ProcGoto(p, "p_loop")
    /\ UNCHANGED <<cam_running, cap, handles, is_video_file, capT, readSeq>>
    /\ UNCHANGED <<guiVars, interval_var, hist, pureVars, target_fps>>

FreeProcThreads(slots) == {p \in slots : procT[p].pc \in {"unstarted", "done"}}
NewProcThread(slots) ==
    CHOOSE p \in FreeProcThreads(slots) : \A q \in FreeProcThreads(slots) : p <= q

---------------------------------------------------------------------------
(* PowerLineInspectorGUI (gui.py): session control, on the Tk thread.      *)
(* A handler runs to its end before the next one starts; the worker        *)
(* threads run in between only where the handler sleeps.                   *)

\* cap.get(cv2.CAP_PROP_FPS) of a file: 0 where the container does not tell.
\* The handle keeps it as fps; it is not asked of a camera, whose fps is 0.
NativeFps == {0, 25, 60}

\* an open_camera that sets target_fps for a file only
target_fps_file_only(kind, video_fps) ==
    IF kind = "file"
    THEN Min(IF video_fps <= 0 THEN 30 ELSE video_fps, config.TARGET_FPS)
    ELSE target_fps

\* camera.py lines 37-43 (a file) and line 63 (a camera): the target_fps
\* open_camera leaves when it returns True
open_camera_target_fps(kind, video_fps) ==
    IF kind = "file"
    THEN Min(IF video_fps <= 0 THEN 30 ELSE video_fps, config.TARGET_FPS)
    ELSE config.TARGET_FPS

\* CameraManager.open_camera returns True with a source of the given kind
\* ("file": lines 33-46, "camera": lines 51-67), start_capture starts the
\* capture thread (lines 79-81) and start_inspection goes on to start the
\* processing thread and to call update_gui, which with running set
\* schedules its callback (lines 706-724 and 923).  capSlots and procSlots
\* bound the threads alive at once.
start_inspection(kind, capSlots, procSlots) ==
    /\ FreeHandles # {}
    /\ FreeCapThreads(capSlots) # {}
    /\ FreeProcThreads(procSlots) # {}
    /\ \E video_fps \in NativeFps :
          /\ kind = "camera" => video_fps = 0
          /\ handles' = [handles EXCEPT ![NewHandle] =
                            [state |-> "open", kind |-> kind, pos |-> 0, releases |-> 0,
                             fps |-> video_fps]]
          /\ target_fps' = open_camera_target_fps(kind, video_fps)
    /\ cap' = HandleCap(NewHandle)
    /\ is_video_file' = (kind = "file")
    /\ cam_running' = TRUE
    /\ capT' = [capT EXCEPT ![NewCapThread(capSlots)] =
                                [pc |-> "c_running", frame |-> 0, enq |-> "none"]]
    /\ gui_running' = TRUE
    /\ start_btn' = FALSE
    /\ stop_btn' = TRUE
    /\ procT' = [procT EXCEPT ![NewProcThread(procSlots)].pc = "p_loop"]
    /\ gui_after' = gui_after + 1
    /\ guiPc' = "idle"
    /\ open_attempt' = 0
    /\ UNCHANGED <<frame_queue, readSeq, interval_var, detVars, delivered, hist, pureVars>>

\* a stop_inspection that joins the processing thread: it cannot return
\* while the thread is inside a call that does not return
stop_inspection_joins ==
    /\ \A p \in ProcThreads : procT[p].pc # "pf_infer"
    /\ gui_running' = FALSE
    /\ stop_capture
    /\ start_btn' = TRUE
    /\ stop_btn' = FALSE

\* PowerLineInspectorGUI.stop_inspection
stop_inspection ==
    /\ gui_running' = FALSE
    /\ stop_capture
    /\ start_btn' = TRUE
    /\ stop_btn' = FALSE

\* the START INSPECTION button, enabled while start_btn is "normal"
StartInspection(kind, capSlots, procSlots) ==
    /\ guiPc = "idle"
    /\ start_btn
    /\ start_inspection(kind, capSlots, procSlots)

\* the STOP INSPECTION button, enabled while stop_btn is "normal"
StopInspection ==
    /\ guiPc = "idle"
    /\ stop_btn
    /\ stop_inspection
    /\ UNCHANGED <<guiPc, open_attempt, gui_after, interval_var, procT, detVars, delivered,
                   hist, pureVars, target_fps>>

\* PowerLineInspectorGUI.pause_inspection (the Pause button is always enabled)
PauseInspection ==
    /\ guiPc = "idle"
    /\ gui_running
    /\ gui_running' = FALSE
    /\ UNCHANGED <<camVars, guiPc, open_attempt, start_btn, stop_btn, gui_after, interval_var,
                   procT, detVars, delivered, hist, pureVars, target_fps>>

\* PowerLineInspectorGUI.restart_inspection while running (lines 748-750):
\* stop_inspection, then time.sleep(0.5) on the Tk thread
RestartStops ==
    /\ guiPc = "idle"
    /\ gui_running
    /\ stop_inspection
    /\ guiPc' = "restart_sleep"
    /\ UNCHANGED <<open_attempt, gui_after, interval_var, procT, detVars, delivered, hist,
                   pureVars, target_fps>>

\* restart_inspection, line 751: start_inspection, at once when not running
\* and after the sleep otherwise
RestartStarts(kind, capSlots, procSlots) ==
    /\ \/ guiPc = "idle" /\ ~gui_running
       \/ guiPc = "restart_sleep"
    /\ start_inspection(kind, capSlots, procSlots)

\* PowerLineInspectorGUI.on_closing, confirmed: running = False,
\* stop_capture, root.destroy(); the main loop ends, the pending callbacks
\* are discarded and no handler runs after it
OnClosing ==
    /\ guiPc = "idle"
    /\ gui_running' = FALSE
    /\ stop_capture
    /\ guiPc' = "closed"
    /\ gui_after' = 0
    /\ UNCHANGED <<open_attempt, start_btn, stop_btn, interval_var, procT, detVars,
                   delivered, hist, pureVars, target_fps>>

---------------------------------------------------------------------------
(* The detector's outputs                                                  *)

BoxA == [ok |-> TRUE, conf |-> 900, cls |-> 0, temp |-> 501, xyxy |-> <<10, 20, 110, 120>>]
BoxB == [ok |-> TRUE, conf |-> 400, cls |-> 3, temp |-> 523, xyxy |-> <<30, 40, 90, 80>>]

\* what self.model(frame, ...) returns: a list of result objects
ModelResults == { <<>>, << <<>> >>, << <<BoxA>> >>, << <<BoxA, BoxB>> >> }

\* self.model(frame, ...) raises, or returns
ModelOutcomes ==
    {[raised |-> TRUE, results |-> <<>>]}
        \cup {[raised |-> FALSE, results |-> r] : r \in ModelResults}

\* extract_yolo_detections has not returned
NotExtracted == [done |-> FALSE, info |-> get_no_detection_info]

\* dict.get(key, default)
DictGet(d, key, default) == IF key \in DOMAIN d THEN d[key] ELSE default

\* float(text.replace('%', '')) / 100.0, in thousandths, of a text that
\* f"{confidence:.1%}" produces or of "0%"
PercentToFraction(text) ==
    IF text = "0%" THEN 0 ELSE CHOOSE c \in 0..1000 : FormatPercent(c) = text

\* gui.py lines 811-834: the dict save_detection_to_database builds from the
\* detection_info (its confidence text always holds a '%'); the temperature
\* and the keys filled from the form are left out
detection_data(detection_info) ==
    [defect_type |-> DictGet(detection_info, "label", "Unknown"),
     confidence |-> PercentToFraction(DictGet(detection_info, "confidence", "0%"))]

\* database.py lines 78-112: the columns save_inspection inserts for the
\* dict it is given, the temperature and the form columns left out; a
\* confidence that is a float has no '%' in its str() and is taken as it is
save_inspection(inspection_data) ==
    [joint_type |-> DictGet(inspection_data, "label", "Unknown Inspection"),
     confidence |-> DictGet(inspection_data, "confidence", 0)]

\* no row inserted into inspection_records
NoRow == [columns |-> save_inspection(<<>>), of |-> get_no_detection_info]

\* no call of process_frame since the counter was reset and no record saved;
\* row is the last row inserted with the detection_info it was inserted for,
\* paused_at the value of received when a frame was last received with
\* processing disabled (-1: none was)
NoCalls ==
    [received |-> 0, invoked |-> {}, eligible |-> FALSE, before |-> get_no_detection_info,
     saved |-> 0, entries |-> 0, row |-> NoRow, paused_at |-> 0 - 1]

---------------------------------------------------------------------------
(* Spec: the pipeline with a camera attached and no video file.  Two       *)
(* capture threads and one processing thread can be alive at once.         *)

\* try1.py, YOLOPowerLineInspector.__init__ (lines 26-57), no session started.
\* pt[t] is the process_frames thread of session t: its position, the frame
\* it took and the detection_info it forwards with it.
\* A DetectionState is given by its label; a result in result_queue is the
\* pair (frame, detection_info) with the number of its production.  The
\* fields captured, produced, inferred and shown are history: the frames
\* read, the results produced, the detection_info of the most recent
\* inference ("none" before the first) and the results update_gui received.
Try1Constructed ==
    [running |-> FALSE, frame_queue |-> <<>>, result_queue |-> <<>>,
     skip_frames |-> 0, frame_skip_ratio |-> 2, processing_enabled |-> TRUE,
     current_detection |-> "No Detection",
     pt |-> [t \in 1..MaxOpens |->
                [pc |-> "unstarted", frame |-> 0, info |-> "none", path |-> "none"]],
     sessions |-> 0, captured |-> 0, produced |-> 0, inferred |-> "none", shown |-> <<>>]

\* RunCamWifiLink2.__init__ (runcam.py lines 7-12).  cap is "None" or the
\* state of the VideoCapture; workers counts the _stream_worker threads that
\* have not returned; pc is where the caller is inside stop(); calls,
\* last_start and since_stop are history: the calls made, what start_stream
\* returned when it is the last call made ("none" otherwise), and whether
\* stop() has returned with no connect() succeeding since.
RunCamConstructed ==
    [cap |-> "None", is_connected |-> FALSE, running |-> FALSE, workers |-> 0,
     pc |-> "idle", calls |-> 0, last_start |-> "none", since_stop |-> FALSE]

\* no call of simulate_temperature made in either of two runs of the
\* program.  enabled is Config.ENABLE_TEMPERATURE_SIMULATION; rng[i] is the
\* generator of the module random in run i: the state its seed determines
\* and the entropy of the run, which differs between the runs; args are the
\* arguments of the calls made, the same in both runs, and out[i] what the
\* calls returned in run i, in tenths of a degree.
NoTempRuns ==
    [enabled |-> TRUE,
     rng |-> <<[state |-> 0, entropy |-> 0], [state |-> 0, entropy |-> 1]>>,
     args |-> <<>>,
     out |-> << <<>>, <<>> >>]

\* the programs beside the pipeline have not been run
OthersNotRun ==
    /\ try1 = Try1Constructed
    /\ runcam = RunCamConstructed
    /\ temp_runs = NoTempRuns

\* class Config as shipped (config.py lines 9, 20 and 52); the confidence
\* threshold is a number of thousandths
ShippedConfig ==
    [CONFIDENCE_THRESHOLD |-> CONFIDENCE_THRESHOLD,
     DETECTION_INTERVAL |-> DETECTION_INTERVAL,
     TARGET_FPS |-> TARGET_FPS]

\* the application built from configuration cfg, no session started yet:
\* PowerLineInspectorGUI.__init__ (gui.py lines 17-44), CameraManager.__init__
\* (camera.py lines 12-28), PowerLineDetector.__init__ (detector.py lines 16-44)
Constructed(cfg) ==
    /\ config = cfg
    /\ target_fps = cfg.TARGET_FPS
    /\ cam_running = FALSE
    /\ cap = NoneCap
    /\ handles = [h \in Handles |-> [state |-> "unused", kind |-> "camera", pos |-> 0, releases |-> 0, fps |-> 0]]
    /\ is_video_file = FALSE
    /\ frame_queue = <<>>
    /\ capT = [t \in CapThreads |-> [pc |-> "unstarted", frame |-> 0, enq |-> "none"]]
    /\ readSeq = 0
    /\ gui_running = FALSE
    /\ guiPc = "idle"
    /\ open_attempt = 0
    /\ start_btn = TRUE
    /\ stop_btn = FALSE
    /\ gui_after = 0
    /\ interval_var = "3"
    /\ procT = [p \in ProcThreads |->
                  [pc |-> "unstarted", frame |-> 0, tmp |-> 0,
                   info |-> get_no_detection_info, overlay |-> NoOverlay,
                   path |-> "none", bufs |-> NoBuffers]]
    /\ processing_enabled = TRUE
    /\ skip_factor = cfg.DETECTION_INTERVAL
    /\ frame_counter = 0
    /\ current_detection = get_no_detection_info
    /\ delivered = [last |-> 0, in_order |-> TRUE]
    /\ hist = NoCalls

IdleSession ==
    /\ Constructed(ShippedConfig)
    /\ app = "built"
    /\ OthersNotRun

Init ==
    /\ IdleSession
    /\ yolo_result = <<>>
    /\ extracted = NotExtracted

Capture == \E t \in CapThreads : CaptureStep(t)

Processing ==
    \E p \in ProcThreads :
        \/ ProcCheckRunning(p)
        \/ \E outcome \in ModelOutcomes : ProcIteration(p, outcome)

Session ==
    \/ StartInspection("camera", CapThreads, {1})
    \/ StopInspection
    \/ PauseInspection
    \/ RestartStops
    \/ RestartStarts("camera", CapThreads, {1})
    \/ OnClosing

Next == Capture \/ Processing \/ Session

Spec == Init /\ [][Next]_vars

---------------------------------------------------------------------------
(* The frame queue under Spec                                              *)

\* lines 112-116 as run by capture thread t: the check or the put
EnqueueStep(t) == CapCheckFull(t) \/ CapPut(t)

\* C1: in every reachable state frame_queue holds between 0 and
\* FRAME_QUEUE_SIZE frames, and a capture thread that stands at its enqueue
\* step (the check of line 112 or the put of line 114) can always take it:
\* the step never blocks, and on a full queue it can only complete without
\* inserting.
C1_QueueBoundedNeverBlocks ==
    /\ Len(frame_queue) \in 0..FRAME_QUEUE_SIZE
    /\ \A t \in CapThreads :
          (CapAt(t, "c_full") \/ CapAt(t, "c_put")) =>
              /\ ENABLED EnqueueStep(t)
              /\ Full(frame_queue) =>
                    /\ ENABLED (EnqueueStep(t) /\ frame_queue' = frame_queue)
                    /\ ~ENABLED (EnqueueStep(t) /\ frame_queue' # frame_queue)

\* C1, its case: a put that met a queue filled since the check of line 112
\* (by the other capture thread) has timed out and left the queue full
C1_PutTimedOutOnFullQueue ==
    \E t \in CapThreads :
        /\ CapAt(t, "c_pace")
        /\ capT[t].enq = "timeout"
        /\ Len(frame_queue) = FRAME_QUEUE_SIZE

\* C2: when a capture thread holds a frame it has read and the queue is full,
\* its enqueue step discards the frame and leaves the queue's contents and
\* their order as they were; and no step of a capture thread evicts a queued
\* frame: it leaves the queue as it is or appends its own frame at the tail.
C2_DropNewest ==
    [][\A t \in CapThreads :
          /\ (EnqueueStep(t) /\ Full(frame_queue)) =>
                /\ frame_queue' = frame_queue
                /\ capT'[t].enq \in {"skipped", "timeout"}
          /\ CaptureStep(t) =>
                \/ frame_queue' = frame_queue
                \/ frame_queue' = Append(frame_queue, capT[t].frame)]_vars

\* C2, its case: frame 3 was read while frames 1 and 2 were queued, and was
\* discarded at line 112; frames 1 and 2 are still queued in that order
C2_NewestDiscarded ==
    \E t \in CapThreads :
        /\ CapAt(t, "c_pace")
        /\ capT[t].enq = "skipped"
        /\ capT[t].frame = 3
        /\ frame_queue = <<1, 2>>

\* C3: the frames get_frame returns to the processing loop come in the order
\* in which they were read from the source: no frame is delivered after a
\* frame that was read later.
C3_DeliveredInCaptureOrder == delivered.in_order

\* the capture thread in slot t is not in its loop
CapLeft(t) == capT[t].pc \in {"unstarted", "done", "crashed"}

\* C12: once stop_capture has returned (running is False and cap is None)
\* and every capture thread has left its loop, frame_queue is empty, so that
\* no frame of the session that was stopped is left for a later session.
C12_QueueEmptyAfterStop ==
    (~cam_running /\ cap = NoneCap /\ \A t \in CapThreads : CapLeft(t)) =>
        frame_queue = <<>>

\* the handlers that call CameraManager.stop_capture
StopCaptureCall == StopInspection \/ RestartStops \/ OnClosing

Idle == ~gui_running /\ ~cam_running /\ cap = NoneCap /\ guiPc \in {"idle", "closed"}

\* C14: whenever the pipeline is back in Idle, every VideoCapture that
\* open_camera opened has been released, and released once.
C14_HandlesReleasedOnce ==
    Idle => \A h \in Handles :
                handles[h].state # "unused" =>
                    handles[h].state = "released" /\ handles[h].releases = 1

\* pause_inspection has cleared the GUI's running flag and the pipeline has
\* not been started or stopped since
Paused == ~gui_running /\ cam_running

\* C15: while the inspection is paused no frame is read from the source,
\* none is pushed into frame_queue, and current_detection keeps its value.
C15_PausedHaltsAcquisition ==
    [][(Paused /\ Paused') =>
          /\ readSeq' = readSeq
          /\ Len(frame_queue') <= Len(frame_queue)
          /\ current_detection' = current_detection]_vars

\* the processing thread in slot p is not in its loop
ProcLeft(p) == procT[p].pc \in {"unstarted", "done"}

\* C16: at any time at most one capture thread and at most one processing
\* thread are in their loops.
C16_SingleProducerSingleConsumer ==
    /\ Cardinality({t \in CapThreads : ~CapLeft(t)}) <= 1
    /\ Cardinality({p \in ProcThreads : ~ProcLeft(p)}) <= 1

---------------------------------------------------------------------------
(* SpecLive: one capture thread and one processing thread at a time,      *)
(* scheduled fairly: a thread that can take its next step takes it.        *)
(* Nothing is assumed of the operator (no button has to be pressed) nor of *)
(* the source (a read may fail every time).                                *)

ProcStep(p) ==
    \/ ProcCheckRunning(p)
    \/ \E outcome \in ModelOutcomes : ProcIteration(p, outcome)

ThreadsRun ==
    /\ \A t \in CapThreads : WF_vars(CaptureStep(t))
    /\ \A p \in ProcThreads : WF_vars(ProcStep(p))

\* the session handlers, with a start that finds the threads of the session
\* before it gone
SessionLive ==
    \/ StartInspection("camera", {1}, {1})
    \/ StopInspection
    \/ PauseInspection
    \/ RestartStops
    \/ RestartStarts("camera", {1}, {1})
    \/ OnClosing

NextLive == Capture \/ Processing \/ SessionLive

SpecLive == Init /\ [][NextLive]_vars /\ ThreadsRun

\* stop_inspection (or on_closing) has run and no start since
Stopped == ~gui_running /\ ~cam_running

\* every capture thread and every processing thread has left its loop
AllLeft == (\A t \in CapThreads : CapLeft(t)) /\ (\A p \in ProcThreads : ProcLeft(p))

\* C17: after stop_inspection, unless the pipeline is started again, the
\* capture thread and the processing thread eventually leave their loops;
\* and from then on, while the pipeline stays stopped, no thread reads a
\* frame, pushes to or pops from the queue, or posts a display update.
C17_ThreadsLeaveAfterStop ==
    /\ Stopped ~> (AllLeft \/ ~Stopped)
    /\ [][(Stopped /\ AllLeft /\ Stopped') =>
             /\ AllLeft'
             /\ UNCHANGED <<readSeq, capT, procT, delivered>>
             /\ Len(frame_queue') <= Len(frame_queue)]_vars

\* C17, its case: a session that read and delivered frames was stopped and
\* both of its threads have left their loops
C17_BothThreadsDone ==
    /\ Stopped
    /\ capT[1].pc = "done"
    /\ procT[1].pc = "done"
    /\ AllLeft
    /\ delivered.last > 0
    /\ handles[1].state = "released"

\* C20: a run of consecutive failed reads ends: the capture thread that
\* handles a failed read later reads a frame or leaves its loop.
C20_FailedReadsEnd ==
    \A t \in CapThreads :
        CapAt(t, "c_fail") ~> (CapAt(t, "c_full") \/ CapLeft(t))

---------------------------------------------------------------------------
(* SpecFile: sessions on the video file (Config.VIDEO_PATH exists and      *)
(* opens) and on a camera (it does not), one after the other, with one     *)
(* capture thread and one processing thread at a time.  The file has       *)
(* FileLen frames and a read of it fails only at its end.                  *)

SessionFile ==
    \/ \E kind \in {"file", "camera"} : StartInspection(kind, {1}, {1})
    \/ StopInspection

NextFile == Capture \/ Processing \/ SessionFile

SpecFile == Init /\ [][NextFile]_vars

\* self.cap is an open capture of the given kind
OpenCap(kind) == IsOpened(cap) /\ handles[cap.h].kind = kind

\* C19: a read of the file returns the frame at the position and advances
\* it by one; the failed read at the end of the file makes the loop set the
\* position to 0, once, and continue without sleeping or leaving, so that
\* the frames read are the file's frames 0 .. FileLen-1 again and again; on
\* a camera a failed read changes no position and is followed by the sleep
\* of line 100 and the next iteration; no other step of the loop moves a
\* position.
C19_FileRewindsCameraRetries ==
    /\ [](\A h \in Handles : handles[h].pos \in 0..FileLen)
    /\ []((handles[1].kind = "file" /\ handles[2].state = "unused") =>
             handles[1].pos \in
                {readSeq % FileLen} \cup
                (IF readSeq > 0 /\ readSeq % FileLen = 0 THEN {FileLen} ELSE {}))
    /\ [][\A t \in CapThreads :
             /\ (CapReadFrame(t) /\ OpenCap("file")) =>
                    /\ handles[cap.h].pos < FileLen
                    /\ handles' = [handles EXCEPT ![cap.h].pos = @ + 1]
             /\ (CapHandleFailure(t) /\ OpenCap("file")) =>
                    /\ handles[cap.h].pos = FileLen
                    /\ handles' = [handles EXCEPT ![cap.h].pos = 0]
                    /\ capT'[t].pc = "c_running"
             /\ (CapHandleFailure(t) /\ OpenCap("camera")) =>
                    /\ handles' = handles
                    /\ capT'[t].pc = "c_retry"
             /\ (CapRetrySleep(t) /\ cam_running /\ IsOpened(cap)) =>
                    capT'[t].pc = "c_running"
             /\ (CaptureStep(t) /\ ~CapReadFrame(t) /\ ~CapHandleFailure(t)) =>
                    handles' = handles]_vars

\* C19, its case: the file was read to its end and rewound, and its first
\* frame has been read again
C19_FileReadAgainFromStart ==
    /\ handles[1].kind = "file"
    /\ handles[2].state = "unused"
    /\ readSeq = FileLen + 1
    /\ handles[1].pos = 1
    /\ capT[1].pc = "c_full"
    /\ capT[1].frame = FileLen + 1

---------------------------------------------------------------------------
(* SpecOpen: CameraManager.open_camera attempt by attempt, as called from  *)
(* start_capture in start_inspection on the Tk thread.  Attempt 0 is the   *)
(* video file; attempt k in 1 .. NumBackends * NumIndices is               *)
(* cv2.VideoCapture(i, backend) with backend (k-1) \div NumIndices and      *)
(* index i = (k-1) % NumIndices.  Whether the file exists and whether an   *)
(* attempt opens, does not open or raises is the environment's choice.     *)
(* The steps of the Tk thread only: the worker threads write nothing that  *)
(* open_camera, start_capture or start_inspection read, and the threads a  *)
(* successful start creates stay where they start.                         *)

\* giving up after the first backend
GivesUpEarly(k) == k > NumIndices

\* lines 51-52 have run through every backend and every index
AllAttemptsMade(k) == k > NumBackends * NumIndices

\* what the steps of open_camera leave alone
openFrame ==
    <<cam_running, handles, is_video_file, frame_queue, capT, readSeq, gui_running,
      start_btn, stop_btn, gui_after, interval_var, procT, detVars, delivered, hist, pureVars,
      target_fps>>

\* gui.py line 701, camera.py line 76: start_inspection (the START button,
\* or restart_inspection at line 751) calls start_capture, which calls
\* open_camera
BeginOpen ==
    /\ \/ guiPc = "idle" /\ start_btn
       \/ guiPc = "idle" /\ ~gui_running
       \/ guiPc = "restart_sleep"
    /\ guiPc' = "opening"
    /\ open_attempt' = 0
    /\ UNCHANGED <<cap, openFrame>>

\* line 33: os.path.exists(VIDEO_PATH) is False
OpenFileMissing ==
    /\ guiPc = "opening"
    /\ open_attempt = 0
    /\ open_attempt' = 1
    /\ UNCHANGED <<guiPc, cap, openFrame>>

\* lines 34-35: the file exists and the capture made of it is not opened
OpenFileFails ==
    /\ guiPc = "opening"
    /\ open_attempt = 0
    /\ cap' = UnopenedCap
    /\ open_attempt' = 1
    /\ UNCHANGED <<guiPc, openFrame>>

\* lines 34-46: the file opens and open_camera returns True; start_capture
\* and start_inspection go on
OpenFileOpens ==
    /\ guiPc = "opening"
    /\ open_attempt = 0
    /\ start_inspection("file", CapThreads, ProcThreads)

\* lines 53-55 and 68-69: the attempt raises (self.cap is not assigned) or
\* makes a capture that is not opened
OpenCameraFails(raises) ==
    /\ guiPc = "opening"
    /\ open_attempt >= 1
    /\ ~AllAttemptsMade(open_attempt)
    /\ cap' = IF raises THEN cap ELSE UnopenedCap
    /\ open_attempt' = open_attempt + 1
    /\ UNCHANGED <<guiPc, openFrame>>

\* lines 54-67: the attempt opens a camera and open_camera returns True
OpenCameraOpens ==
    /\ guiPc = "opening"
    /\ open_attempt >= 1
    /\ ~AllAttemptsMade(open_attempt)
    /\ start_inspection("camera", CapThreads, ProcThreads)

\* camera.py lines 71-72 and 76-77, gui.py lines 701-704: open_camera and
\* start_capture return False, start_inspection shows the error and returns
StartCaptureFails ==
    /\ guiPc = "opening"
    /\ AllAttemptsMade(open_attempt)
    /\ guiPc' = "idle"
    /\ open_attempt' = 0
    /\ UNCHANGED <<cap, openFrame>>

Opening ==
    \/ BeginOpen
    \/ OpenFileMissing
    \/ OpenFileFails
    \/ OpenFileOpens
    \/ \E raises \in BOOLEAN : OpenCameraFails(raises)
    \/ OpenCameraOpens
    \/ StartCaptureFails

SessionOpen == StopInspection \/ PauseInspection \/ RestartStops

NextOpen == Opening \/ SessionOpen

SpecOpen == Init /\ [][NextOpen]_vars

---------------------------------------------------------------------------
(* The detector in a running session.  The capture side is reduced to its  *)
(* effect on the processing thread: get_frame has a frame whenever the     *)
(* thread asks for one.  Processing thread 1 calls process_frame frame     *)
(* after frame; the Tk thread runs the handlers of the detection-interval  *)
(* spin box and of the processing check box.                               *)

\* number of frames the counter reaches in SpecDet
MaxFrames == 4
\* number of frames received between two counter resets in SpecSeq
MaxCalls == 10

\* the texts the spin box entry takes
IntervalTexts == {"-4", "0", "2", "11", "abc"}

\* int(text) raises ValueError
IsIntText(text) == text \in {"-4", "0", "1", "2", "3", "11"}

\* int(text)
IntOfText(text) ==
    CASE text = "-4" -> 0 - 4
      [] text = "0" -> 0
      [] text = "1" -> 1
      [] text = "2" -> 2
      [] text = "3" -> 3
      [] text = "11" -> 11

\* gui.py lines 783-786: the loop keeps a snapshot of the frame and calls
\* self.detector.process_frame(frame)
call_process_frame(p) ==
    /\ ProcAt(p, "p_frame")
    /\ ProcSetBufs(p, "pf_enabled", procT[p].frame, 0, get_no_detection_info, NoOverlay,
                   "none", TakeSnapshot)
    /\ UNCHANGED <<camVars, guiVars, interval_var, detVars, delivered, pureVars, target_fps>>

\* gui.py lines 786-795: process_frame has returned the pair; the detection
\* count and the database record
take_result(p) ==
    /\ ProcAt(p, "pf_return")
    /\ ProcGoto(p, "p_post")
    /\ UNCHANGED <<camVars, guiVars, interval_var, detVars, delivered, pureVars, target_fps>>

\* gui.py line 798: root.after(0, self._update_detection_display,
\* processed_frame, detection_info); the next get_frame returns a frame
post_result(p) ==
    /\ ProcAt(p, "p_post")
    /\ ProcSet(p, "p_frame", procT[p].frame, 0, get_no_detection_info, NoOverlay, "none")
    /\ UNCHANGED <<camVars, guiVars, interval_var, detVars, delivered, pureVars, target_fps>>

\* gui.py lines 800-802: the exception that left process_frame is logged;
\* the next get_frame returns a frame
catch_error(p) ==
    /\ ProcAt(p, "pf_raised")
    /\ ProcSet(p, "p_frame", procT[p].frame, 0, get_no_detection_info, NoOverlay, "none")
    /\ UNCHANGED <<camVars, guiVars, interval_var, detVars, delivered, pureVars, target_fps>>

\* PowerLineInspectorGUI.toggle_processing: a click has flipped the check
\* box to `enabled`, or a performance preset has set it (to True); up to the
\* first write of set_processing_enabled
toggle_processing(enabled) ==
    /\ enabled \/ processing_enabled
    /\ SetProcessingFlag(enabled)
    /\ UNCHANGED <<handlerFrame, interval_var>>

\* toggle_processing(False), the second write of set_processing_enabled
toggle_processing_resets ==
    /\ DisableResetsDetection
    /\ UNCHANGED <<handlerFrame, interval_var>>

\* PowerLineInspectorGUI.update_detection_interval with `text` in the entry:
\* int(text), or "3" after a ValueError; up to the first write of
\* set_detection_interval
update_detection_interval(text) ==
    /\ IF IsIntText(text)
       THEN /\ interval_var' = text
            /\ SetIntervalFactor(IntOfText(text))
       ELSE /\ interval_var' = "3"
            /\ SetIntervalFactor(3)
    /\ UNCHANGED handlerFrame

\* update_detection_interval, the second write of set_detection_interval
update_detection_interval_resets ==
    /\ SetIntervalResetsCounter
    /\ UNCHANGED <<handlerFrame, interval_var>>

\* the session is running and the processing thread holds its first frame
InitDet ==
    /\ cam_running = TRUE
    /\ cap = HandleCap(1)
    /\ handles = [h \in Handles |->
                    [state |-> IF h = 1 THEN "open" ELSE "unused", kind |-> "camera", pos |-> 0,
                     releases |-> 0, fps |-> 0]]
    /\ is_video_file = FALSE
    /\ frame_queue = <<>>
    /\ capT = [t \in CapThreads |->
                 [pc |-> IF t = 1 THEN "c_pace" ELSE "unstarted",
                  frame |-> IF t = 1 THEN 1 ELSE 0,
                  enq |-> IF t = 1 THEN "put" ELSE "none"]]
    /\ readSeq = 1
    /\ gui_running = TRUE
    /\ guiPc = "idle"
    /\ open_attempt = 0
    /\ start_btn = FALSE
    /\ stop_btn = TRUE
    /\ gui_after = 1
    /\ interval_var = "3"
    /\ procT = [p \in ProcThreads |->
                  [pc |-> IF p = 1 THEN "p_frame" ELSE "unstarted",
                   frame |-> IF p = 1 THEN 1 ELSE 0, tmp |-> 0,
                   info |-> get_no_detection_info, overlay |-> NoOverlay,
                   path |-> "none", bufs |-> NoBuffers]]
    /\ processing_enabled = TRUE
    /\ skip_factor = DETECTION_INTERVAL
    /\ frame_counter = 0
    /\ current_detection = get_no_detection_info
    /\ delivered = [last |-> 1, in_order |-> TRUE]
    /\ hist = NoCalls
    /\ yolo_result = <<>>
    /\ extracted = NotExtracted
    /\ config = ShippedConfig
    /\ app = "built"
    /\ target_fps = TARGET_FPS
    /\ OthersNotRun

---------------------------------------------------------------------------
(* SpecDet: the handlers run at any point of process_frame                 *)

DetCall(p) ==
    /\ frame_counter < MaxFrames
    /\ call_process_frame(p)
    /\ UNCHANGED hist

DetTakeResult(p) == take_result(p) /\ UNCHANGED hist
DetPostResult(p) == post_result(p) /\ UNCHANGED hist
DetCatchError(p) == catch_error(p) /\ UNCHANGED hist
DetToggle(enabled) == toggle_processing(enabled) /\ UNCHANGED hist
DetToggleResets == toggle_processing_resets /\ UNCHANGED hist
DetInterval(text) == update_detection_interval(text) /\ UNCHANGED hist
DetIntervalResets == update_detection_interval_resets /\ UNCHANGED hist

NextDet ==
    \/ DetCall(1)
    \/ PFCheckEnabled(1)
    \/ PFLoadCounter(1)
    \/ PFStoreCounter(1)
    \/ PFLoadForModulus(1)
    \/ PFDecide(1)
    \/ \E results \in ModelResults : PFInferReturns(1, results)
    \/ PFInferRaises(1)
    \/ DetTakeResult(1)
    \/ DetPostResult(1)
    \/ DetCatchError(1)
    \/ \E enabled \in BOOLEAN : DetToggle(enabled)
    \/ DetToggleResets
    \/ \E text \in IntervalTexts : DetInterval(text)
    \/ DetIntervalResets

SpecDet == InitDet /\ [][NextDet]_vars

\* C8: once set_processing_enabled(False) has returned and until processing
\* is enabled again, current_detection is the "No Detection" sentinel, and a
\* call of process_frame that found processing disabled returns the sentinel.
C8_DisabledMeansSentinel ==
    (~processing_enabled /\ guiPc # "disable_reset") =>
        /\ current_detection = get_no_detection_info
        /\ \A p \in ProcThreads :
              (ProcAt(p, "pf_return") /\ procT[p].path = "disabled") =>
                  procT[p].info = get_no_detection_info

\* C9: when set_detection_interval returns, skip_factor is max(1, min(10, n))
\* for the integer n it was called with (the entry's text, 3 after a
\* ValueError) and frame_counter is 0; skip_factor is always in 1..10, so the
\* modulus of line 97 is never taken by zero.
C9_IntervalClampedCounterReset ==
    /\ [](skip_factor \in 1..10)
    /\ [](\A p \in ProcThreads : ProcAt(p, "pf_modulus") => skip_factor # 0)
    /\ [][SetIntervalResetsCounter =>
            /\ skip_factor' = Max(1, Min(10, IntOfText(interval_var')))
            /\ frame_counter' = 0]_vars

\* C9, its case: the handler has returned from set_detection_interval(11)
\* with the interval clamped to 10 and the counter reset, and from
\* set_detection_interval(-4) with the interval clamped to 1
C9_ClampedAt10 ==
    /\ guiPc = "idle"
    /\ interval_var = "11"
    /\ skip_factor = 10
    /\ frame_counter = 0

---------------------------------------------------------------------------
(* SpecSeq: the detector used as its contract assumes, by one caller: the  *)
(* handlers run between two calls of process_frame.  hist counts the       *)
(* frames received while processing was enabled since the counter was last *)
(* reset (received), which of them led to a detector call (invoked), and   *)
(* for the call in progress whether processing was enabled and what        *)
(* current_detection was when it started (eligible, before).               *)

SeqCall(p) ==
    /\ guiPc = "idle"
    /\ hist.received < MaxCalls
    /\ call_process_frame(p)
    /\ hist' = [hist EXCEPT !.received = IF processing_enabled THEN @ + 1 ELSE @,
                            !.paused_at = IF processing_enabled THEN @ ELSE hist.received,
                            !.eligible = processing_enabled,
                            !.before = current_detection]

\* the detector call was made on the paths "inferred" and "failed"
Invoked(p) ==
    IF procT[p].path \in {"inferred", "failed"}
    THEN hist.invoked \cup {hist.received}
    ELSE hist.invoked

SeqTakeResult(p) ==
    /\ take_result(p)
    /\ hist' = [hist EXCEPT !.invoked = Invoked(p)]

SeqPostResult(p) ==
    /\ post_result(p)
    /\ hist' = [hist EXCEPT !.eligible = FALSE, !.before = get_no_detection_info]

SeqCatchError(p) ==
    /\ catch_error(p)
    /\ hist' = [hist EXCEPT !.invoked = Invoked(p),
                            !.eligible = FALSE, !.before = get_no_detection_info]

SeqToggle(enabled) ==
    /\ \A p \in ProcThreads : procT[p].pc \in {"p_frame", "unstarted"}
    /\ toggle_processing(enabled)
    /\ UNCHANGED hist

SeqToggleResets == toggle_processing_resets /\ UNCHANGED hist

SeqInterval(text) ==
    /\ \A p \in ProcThreads : procT[p].pc \in {"p_frame", "unstarted"}
    /\ update_detection_interval(text)
    /\ UNCHANGED hist

SeqIntervalResets == update_detection_interval_resets /\ hist' = NoCalls

NextSeq ==
    \/ SeqCall(1)
    \/ PFCheckEnabled(1)
    \/ PFLoadCounter(1)
    \/ PFStoreCounter(1)
    \/ PFLoadForModulus(1)
    \/ PFDecide(1)
    \/ \E results \in ModelResults : PFInferReturns(1, results)
    \/ PFInferRaises(1)
    \/ SeqTakeResult(1)
    \/ SeqPostResult(1)
    \/ SeqCatchError(1)
    \/ \E enabled \in BOOLEAN : SeqToggle(enabled)
    \/ SeqToggleResets
    \/ \E text \in IntervalTexts : SeqInterval(text)
    \/ SeqIntervalResets

SpecSeq == InitDet /\ [][NextSeq]_vars

\* the caller is between two calls and no handler is running
BetweenCalls == ProcAt(1, "p_frame") /\ guiPc = "idle"

\* the frames, counted from the last counter reset, that are a multiple of n
EveryNth(n, received) == {k \in 1..received : k % n = 0}

\* C4: with processing enabled and the interval n unchanged, the detector is
\* called on exactly the frames n, 2n, 3n, ... counted from the last counter
\* reset and on no other frame; for n = 3 and 10 frames, on frames 3, 6, 9.
C4_EveryNthFrame ==
    BetweenCalls =>
        /\ hist.invoked = EveryNth(skip_factor, hist.received)
        /\ (skip_factor = 3 /\ hist.received = 10) => hist.invoked = {3, 6, 9}

\* C4, its case: 10 frames received at interval 3, detector called on 3, 6, 9
C4_TenFramesAtInterval3 ==
    /\ BetweenCalls
    /\ processing_enabled
    /\ skip_factor = 3
    /\ hist.received = 10
    /\ hist.invoked = {3, 6, 9}

\* the call in progress is of a frame skipped by the interval or received
\* while processing was disabled
SkippedOrDisabled == ~hist.eligible \/ hist.received % skip_factor # 0

\* C5: on a frame skipped by the interval and on a frame received while
\* processing is disabled, process_frame does not reach the detector call,
\* returns the state current_detection held when the call started, and
\* current_detection still holds that state.
C5_SkippedFrameReusesState ==
    \A p \in ProcThreads :
        /\ procT[p].pc \in {"pf_infer", "pf_raised"} => ~SkippedOrDisabled
        /\ (ProcAt(p, "pf_return") /\ SkippedOrDisabled) =>
              /\ procT[p].path \in {"skipped", "disabled"}
              /\ procT[p].info = hist.before
              /\ current_detection = hist.before

\* C5, its case: a frame skipped by the interval returns the detection of
\* the inference before it
C5_SkippedFrameReturnsDetection ==
    \E p \in ProcThreads :
        /\ ProcAt(p, "pf_return")
        /\ procT[p].path = "skipped"
        /\ procT[p].info # get_no_detection_info
        /\ procT[p].info = hist.before

\* C6: every frame posted to the display with a non-empty DetectionState
\* carries the box overlay of that state, the frames on which inference was
\* skipped included.
C6_DisplayedFramesCarryOverlay ==
    \A p \in ProcThreads :
        (ProcAt(p, "p_post") /\ procT[p].info # get_no_detection_info) =>
            procT[p].overlay = draw_yolo_boxes(procT[p].info)

\* C7: when the detector call raises, process_frame returns (it does not
\* raise) the frame without overlay and the state current_detection held
\* before the call; current_detection is unchanged, the counter has advanced
\* by the one frame, and the schedule of the later frames is the one of C4.
C7_DetectorFailureKeepsState ==
    /\ \A p \in ProcThreads :
          /\ ProcAt(p, "pf_raised") => procT[p].path # "failed"
          /\ (ProcAt(p, "pf_return") /\ procT[p].path = "failed") =>
                /\ procT[p].info = hist.before
                /\ procT[p].overlay = NoOverlay
                /\ current_detection = hist.before
                /\ frame_counter = hist.received
    /\ BetweenCalls => frame_counter = hist.received
    /\ BetweenCalls => hist.invoked = EveryNth(skip_factor, frame_counter)

\* C7, its case: the detector call raised while current_detection held a
\* detection, and process_frame returns that detection
C7_FailedCallReturnsDetection ==
    \E p \in ProcThreads :
        /\ ProcAt(p, "pf_return")
        /\ procT[p].path = "failed"
        /\ hist.before # get_no_detection_info
        /\ procT[p].info = hist.before
        /\ current_detection = hist.before

---------------------------------------------------------------------------
(* SpecExtract: extract_yolo_detections taken alone, on every result of up *)
(* to MaxBoxes boxes.  A box is what the loop of lines 161-192 reads of    *)
(* it: whether its fields parse (ok), its confidence, its class, the       *)
(* temperature simulate_temperature draws for it, and its corners.         *)

\* number of boxes of a result
MaxBoxes == 3

\* a box that reaches beyond the frame on both sides
BoxWide == [ok |-> TRUE, conf |-> 900, cls |-> 0, temp |-> 523, xyxy |-> <<0 - 5, 20, 700, 120>>]
\* a box whose corners have the same integer part
BoxFlat == [ok |-> TRUE, conf |-> 400, cls |-> 3, temp |-> 356, xyxy |-> <<50, 60, 50, 60>>]

RawBoxes ==
    [ok : BOOLEAN, conf : {400, 900}, cls : {0, 3}, temp : {356, 523},
     xyxy : {<<10, 20, 110, 120>>}]
        \cup {BoxWide, BoxFlat}

\* the sequences of at most n boxes
BoxSeqs(n) == UNION {[1..k -> RawBoxes] : k \in 0..n}

InitExtract ==
    /\ IdleSession
    /\ yolo_result \in BoxSeqs(MaxBoxes)
    /\ extracted = NotExtracted

\* lines 118-119: detection_info = self.extract_yolo_detections(results[0])
\* and self.current_detection = detection_info
ExtractCall ==
    /\ ~extracted.done
    /\ extracted' = [done |-> TRUE, info |-> extract_yolo_detections(yolo_result)]
    /\ current_detection' = extract_yolo_detections(yolo_result)
    /\ UNCHANGED <<processing_enabled, skip_factor, frame_counter>>
    /\ UNCHANGED <<camVars, guiVars, interval_var, procT, delivered, hist, yolo_result,
                   setupVars, otherVars, target_fps>>

\* the model returns the same boxes for the next frame
ExtractNext ==
    /\ extracted.done
    /\ extracted' = NotExtracted
    /\ UNCHANGED <<camVars, guiVars, interval_var, procT, detVars, delivered, hist, yolo_result,
                   setupVars, otherVars, target_fps>>

NextExtract == ExtractCall \/ ExtractNext

SpecExtract == InitExtract /\ [][NextExtract]_vars

\* the boxes of yolo_result whose fields parse, in the detector's order
Parsed == SelectSeq(yolo_result, LAMBDA b : b.ok)

\* C10: for a result with N > 1 parsed boxes the state has the label
\* "Multiple Detections (N)", the greatest of the N confidences, the greatest
\* of the N temperatures, and all_detections holds the N detections in the
\* detector's output order; with one parsed box the primary fields are that
\* detection's own and multiple_info is empty.
C10_AggregateOfBoxes ==
    extracted.done =>
        LET n == Len(Parsed)
            info == extracted.info
        IN  /\ n >= 1 =>
                  /\ Len(info.all_detections) = n
                  /\ \A i \in 1..n :
                        info.all_detections[i] =
                            <<ClassName(Parsed[i].cls), Parsed[i].conf,
                              Parsed[i].cls, Parsed[i].temp>>
            /\ n > 1 =>
                  /\ info.label = "Multiple Detections (" \o ToString(n) \o ")"
                  /\ \E i \in 1..n :
                        /\ \A j \in 1..n : Parsed[j].conf <= Parsed[i].conf
                        /\ info.confidence = FormatPercent(Parsed[i].conf)
                  /\ \E i \in 1..n :
                        /\ \A j \in 1..n : Parsed[j].temp <= Parsed[i].temp
                        /\ info.temperature = FormatTenths(Parsed[i].temp) \o " C"
            /\ n = 1 =>
                  /\ info.label = ClassName(Parsed[1].cls)
                  /\ info.confidence = FormatPercent(Parsed[1].conf)
                  /\ info.temperature = FormatTenths(Parsed[1].temp) \o " C"
                  /\ info.multiple_info = ""

\* C10, its case: three boxes, the second does not parse, the greatest
\* confidence is the last box's and the greatest temperature the first's
C10_TwoOfThreeBoxes ==
    /\ extracted.done
    /\ Len(yolo_result) = 3
    /\ ~yolo_result[2].ok
    /\ Len(Parsed) = 2
    /\ Parsed[1].conf < Parsed[2].conf
    /\ Parsed[1].temp > Parsed[2].temp
    /\ extracted.info.label = "Multiple Detections (2)"
    /\ extracted.info.confidence = "90.0%"
    /\ extracted.info.temperature = "52.3 C"

\* the shape of a DetectionState: the sentinel label goes with an empty
\* all_detections, the summary of several detections with more than one
\* entry, and there is one box per entry
IsDetectionState(d) ==
    LET n == Len(d.all_detections)
    IN  /\ d.label = "No Detection" <=> n = 0
        /\ d.multiple_info # "" <=> n > 1
        /\ n > 1 => d.label = "Multiple Detections (" \o ToString(n) \o ")"
        /\ Len(d.boxes_xyxy) = n

\* C11: every value stored in current_detection has the label "No Detection"
\* exactly when all_detections is empty, a non-empty multiple_info (and the
\* label "Multiple Detections (N)", N = len(all_detections)) exactly when
\* all_detections has more than one entry, and as many boxes_xyxy as
\* all_detections; a result with zero boxes, or none that parses, yields
\* the sentinel.
C11_DetectionStateWellFormed ==
    /\ IsDetectionState(current_detection)
    /\ extracted.done =>
          /\ current_detection = extracted.info
          /\ Len(Parsed) = 0 => extracted.info = get_no_detection_info
          /\ Len(extracted.info.all_detections) = Len(Parsed)

\* C11, its case: a result of three boxes of which two parse has been
\* stored: two entries, two boxes and a summary of two lines
C11_StoredTwoDetections ==
    /\ extracted.done
    /\ Len(yolo_result) = 3
    /\ Len(current_detection.all_detections) = 2
    /\ Len(current_detection.boxes_xyxy) = 2
    /\ current_detection.multiple_info # ""
    /\ current_detection.label = "Multiple Detections (2)"

---------------------------------------------------------------------------
(* SpecConfig: the application is built from a configuration that may be   *)
(* out of range (config.py, main.py, gui.py lines 17-44)                   *)

\* the values class Config may have been edited to
Configs ==
    [CONFIDENCE_THRESHOLD : {CONFIDENCE_THRESHOLD, 1500},
     DETECTION_INTERVAL : {0, DETECTION_INTERVAL},
     TARGET_FPS : {0, TARGET_FPS, 200}]

\* Config.validate_settings returns (raises nothing); the model file exists
validate_settings(cfg) ==
    /\ 0 <= cfg.CONFIDENCE_THRESHOLD /\ cfg.CONFIDENCE_THRESHOLD <= 1000
    /\ ~(cfg.DETECTION_INTERVAL < 1)
    /\ ~(cfg.TARGET_FPS < 1 \/ cfg.TARGET_FPS > 120)

\* the module config is imported; the detector and camera fields show what
\* their constructors will assign
InitConfig ==
    /\ \E cfg \in Configs : Constructed(cfg)
    /\ app = "importing"
    /\ OthersNotRun
    /\ yolo_result = <<>>
    /\ extracted = NotExtracted

\* config.py lines 191-196: validate_settings runs inside try; what it
\* raises is printed and the import completes either way
ImportConfig ==
    /\ app = "importing"
    /\ app' = IF validate_settings(config) THEN "imported" ELSE "error_printed"
    /\ UNCHANGED <<camVars, guiVars, interval_var, procT, detVars, delivered, hist,
                   yolo_result, extracted, config, otherVars, target_fps>>

\* main.py lines 12-16, gui.py lines 23-25: the detector and the camera
\* manager are constructed; 1.0 / TARGET_FPS (detector.py line 41, camera.py
\* line 23) raises ZeroDivisionError for 0 and main re-raises it
BuildApplication ==
    /\ app \in {"imported", "error_printed"}
    /\ app' = IF config.TARGET_FPS = 0 THEN "failed" ELSE "built"
    /\ UNCHANGED <<camVars, guiVars, interval_var, procT, detVars, delivered, hist,
                   yolo_result, extracted, config, otherVars, target_fps>>

\* the buttons exist once the window is built
SessionConfig ==
    /\ app = "built"
    /\ \/ StartInspection("camera", {1}, {1})
       \/ StopInspection

NextConfig == ImportConfig \/ BuildApplication \/ SessionConfig \/ Capture

SpecConfig == InitConfig /\ [][NextConfig]_vars

\* C21: a configuration whose confidence threshold is outside [0, 1], whose
\* detection interval is below 1 or whose target FPS is outside 1..120 is
\* rejected before a session can start: the application is not built from
\* it and start_inspection never brings the pipeline to Running.
C21_InvalidConfigRejected ==
    ~validate_settings(config) => (app # "built" /\ ~gui_running /\ ~cam_running)

---------------------------------------------------------------------------
\* C22: no exception escapes _capture_loop or _processing_loop: a thread
\* that has left its loop has left it by finding the loop condition false,
\* never by an exception, whatever stop_capture did in between (self.cap
\* set to None while the condition is evaluated or while a read is in
\* progress).
C22_NoExceptionEscapes ==
    /\ \A t \in CapThreads : capT[t].pc # "crashed"
    /\ \A p \in ProcThreads : procT[p].pc # "crashed"

---------------------------------------------------------------------------
(* SpecStall: the processing thread step by step inside a session, so that *)
(* a call of the detector that does not return is a thread that stays at   *)
(* self.model(...) while the other threads go on                           *)

\* gui.py lines 776-783: frame = self.camera.get_frame(); on None sleep and
\* the next iteration, otherwise the frame is kept for the call of line 786
ProcGetFrame(p) ==
    /\ ProcAt(p, "p_get")
    /\ frame_queue' = get_frame_queue(frame_queue)
    /\ IF get_frame_result(frame_queue) = 0
       THEN /\ ProcGoto(p, "p_loop")
            /\ UNCHANGED delivered
       ELSE /\ ProcSet(p, "p_frame", get_frame_result(frame_queue), 0,
                       get_no_detection_info, NoOverlay, "none")
            /\ delivered' = Deliver(delivered, get_frame_result(frame_queue))
    /\ UNCHANGED <<cam_running, cap, handles, is_video_file, capT, readSeq>>
    /\ UNCHANGED <<guiVars, interval_var, detVars, hist, pureVars, target_fps>>

\* gui.py line 798, then the loop condition again
ProcPostResult(p) ==
    /\ ProcAt(p, "p_post")
    /\ ProcSet(p, "p_loop", 0, 0, get_no_detection_info, NoOverlay, "none")
    /\ UNCHANGED <<camVars, guiVars, interval_var, detVars, delivered, hist, pureVars,
                   target_fps>>

\* gui.py lines 800-802: the exception is logged, then the loop condition
ProcCatchError(p) ==
    /\ ProcAt(p, "pf_raised")
    /\ ProcSet(p, "p_loop", 0, 0, get_no_detection_info, NoOverlay, "none")
    /\ UNCHANGED <<camVars, guiVars, interval_var, detVars, delivered, hist, pureVars,
                   target_fps>>

\* self.model(...) of detector.py line 105 returns or raises
ModelCallEnds(p) ==
    \/ \E results \in ModelResults : PFInferReturns(p, results)
    \/ PFInferRaises(p)

ProcessingSteps(p) ==
    \/ ProcCheckRunning(p)
    \/ ProcGetFrame(p)
    \/ call_process_frame(p) /\ UNCHANGED hist
    \/ PFCheckEnabled(p)
    \/ PFLoadCounter(p)
    \/ PFStoreCounter(p)
    \/ PFLoadForModulus(p)
    \/ PFDecide(p)
    \/ ModelCallEnds(p)
    \/ take_result(p) /\ UNCHANGED hist
    \/ ProcPostResult(p)
    \/ ProcCatchError(p)

\* PowerLineInspectorGUI.update_gui (lines 884-923) run as a pending
\* callback by the Tk thread: while self.running it reads the rates and the
\* detection count, writes widgets only and schedules itself again (line
\* 923); otherwise it returns and its chain ends
update_gui ==
    /\ guiPc = "idle"
    /\ gui_after > 0
    /\ gui_after' = IF gui_running THEN gui_after ELSE gui_after - 1
    /\ UNCHANGED <<camVars, gui_running, guiPc, open_attempt, start_btn, stop_btn,
                   interval_var, procT, detVars, delivered, hist, pureVars, target_fps>>

SessionStall ==
    \/ StartInspection("camera", {1}, {1})
    \/ StopInspection
    \/ \E text \in {"0", "3"} : DetInterval(text)
    \/ DetIntervalResets

NextStall == Capture \/ ProcessingSteps(1) \/ SessionStall

SpecStall == Init /\ [][NextStall]_vars

\* the processing thread p is inside self.model(...)
InDetectorCall(p) == ProcAt(p, "pf_infer")

---------------------------------------------------------------------------
(* SpecSave: the calls of process_frame one after the other, with what the *)
(* processing loop persists after each.  hist.received counts the calls,   *)
(* hist.saved the records inserted into inspection_records, hist.entries   *)
(* the entries of all_detections of the records the detector calls built.  *)

SaveCall(p) ==
    /\ guiPc = "idle"
    /\ hist.received < MaxFrames
    /\ call_process_frame(p)
    /\ hist' = [hist EXCEPT !.received = @ + 1]

\* gui.py lines 789-795 and 804-847, database.py lines 98-116: the number of
\* rows inserted for the detection_info returned: one INSERT when the label
\* is neither "No Detection" nor "No Defects" and processing is enabled
RecordsSaved(info) ==
    IF info.label # "No Detection" /\ info.label # "No Defects" /\ processing_enabled
    THEN 1
    ELSE 0

\* gui.py line 841 and database.py line 135: save_detection hands the dict
\* to save_inspection with no form_data; the row is inserted when a record
\* is saved
RowSaved(info, row) ==
    IF RecordsSaved(info) = 1
    THEN [columns |-> save_inspection(detection_data(info)), of |-> info]
    ELSE row

\* the entries of the record a detector call has just built
EntriesBuilt(p) ==
    IF procT[p].path = "inferred" THEN Len(procT[p].info.all_detections) ELSE 0

SaveTakeResult(p) ==
    /\ take_result(p)
    /\ hist' = [hist EXCEPT !.saved = @ + RecordsSaved(procT[p].info),
                            !.entries = @ + EntriesBuilt(p),
                            !.row = RowSaved(procT[p].info, @)]

\* the interval is changed between two calls
SaveInterval(text) ==
    /\ \A p \in ProcThreads : procT[p].pc \in {"p_frame", "unstarted"}
    /\ update_detection_interval(text)
    /\ UNCHANGED hist

NextSave ==
    \/ SaveCall(1)
    \/ PFCheckEnabled(1)
    \/ PFLoadCounter(1)
    \/ PFStoreCounter(1)
    \/ PFLoadForModulus(1)
    \/ PFDecide(1)
    \/ ModelCallEnds(1)
    \/ SaveTakeResult(1)
    \/ DetPostResult(1)
    \/ DetCatchError(1)
    \/ \E text \in {"0", "2"} : SaveInterval(text)
    \/ DetIntervalResets

SpecSave == InitDet /\ [][NextSave]_vars

\* C24: every non-empty DetectionState built by a detector call leads to
\* exactly one persisted record for each entry of its all_detections, and a
\* frame that is skipped persists no further record: between two calls the
\* number of records persisted is the number of entries built.
C24_OneRecordPerEntry == BetweenCalls => hist.saved = hist.entries

---------------------------------------------------------------------------
\* the records a single construction yields: the sentinel
\* (get_no_detection_info) and what extract_yolo_detections builds from one
\* result
BuiltRecords ==
    {get_no_detection_info}
        \cup {extract_yolo_detections(r[1]) : r \in ModelResults \ {<<>>}}

\* C25: current_detection is published only by assigning a newly built
\* record, and no operation changes a field of a record once it is assigned:
\* the value of current_detection, and the record a reader took from it or
\* from a return of process_frame, is at every instant a complete record
\* whose fields all come from one construction.
C25_PublishedByReplacement ==
    /\ current_detection \in BuiltRecords
    /\ \A p \in ProcThreads : procT[p].info \in BuiltRecords

\* C25, its case: the reader holds the record of two detections that a call
\* returned, and current_detection has since been replaced by the sentinel
C25_ReaderKeepsReplacedRecord ==
    /\ ProcAt(1, "p_post")
    /\ procT[1].path = "inferred"
    /\ procT[1].info.label = "Multiple Detections (2)"
    /\ Len(procT[1].info.all_detections) = 2
    /\ current_detection = get_no_detection_info
    /\ ~processing_enabled

---------------------------------------------------------------------------
\* C26: whenever the pipeline is Idle (before the first start and after
\* every stop_inspection) current_detection is the sentinel record.
C26_IdleHoldsSentinel == Idle => current_detection = get_no_detection_info

---------------------------------------------------------------------------
\* C27: when set_detection_interval(n) runs concurrently with process_frame
\* the reset of the counter is not lost: the store of "frame_counter += 1"
\* adds one to the value the counter has at that moment, so that a reset
\* made since the counter was loaded is kept and the frames that follow the
\* reset are counted from 0, for every interleaving of the two calls.
C27_CounterResetNotLost ==
    [][\A p \in ProcThreads : PFStoreCounter(p) => frame_counter' = frame_counter + 1]_vars

---------------------------------------------------------------------------
\* C28: while a capture opened from a file is attached, target_fps is
\* min(nativeFps, TARGET_FPS), with 30 taken for a nativeFps of 0 or less;
\* while a camera is attached target_fps is TARGET_FPS, also in a session
\* that follows a file session with a lower rate.
C28_TargetFpsFollowsSource ==
    IsOpened(cap) =>
        LET nativeFps == handles[cap.h].fps
        IN  target_fps = IF OpenCap("file")
                         THEN Min(IF nativeFps <= 0 THEN 30 ELSE nativeFps, TARGET_FPS)
                         ELSE TARGET_FPS

\* C28, its case: a camera session at TARGET_FPS after a file session at 25
C28_CameraAfterSlowFile ==
    /\ handles[1].kind = "file"
    /\ handles[1].fps = 25
    /\ handles[1].state = "released"
    /\ cap = HandleCap(2)
    /\ OpenCap("camera")
    /\ target_fps = TARGET_FPS
    /\ cam_running

---------------------------------------------------------------------------
---------------------------------------------------------------------------
\* the box has a positive width and height and lies inside the frame
InsideFrame(box) ==
    /\ box[1] < box[3]
    /\ box[2] < box[4]
    /\ 0 <= box[1] /\ box[3] <= CAMERA_WIDTH
    /\ 0 <= box[2] /\ box[4] <= CAMERA_HEIGHT

\* C30: every box in boxes_xyxy of a record extract_yolo_detections built
\* satisfies x1 < x2 and y1 < y2 and lies inside the frame, whatever
\* coordinates the detector returned: coordinates out of range are clamped.
C30_BoxesInsideFrame ==
    extracted.done =>
        \A i \in 1..Len(extracted.info.boxes_xyxy) :
            InsideFrame(extracted.info.boxes_xyxy[i])

----------------------------------------------------------------------------
(* try1.py: the single-file inspector YOLOPowerLineInspector               *)

\* everything that is not a field of the try1.py inspector
besideTry1 ==
    <<camVars, guiVars, interval_var, procT, detVars, delivered, hist, yolo_result,
      extracted, setupVars, target_fps, runcam, temp_runs>>

\* queue.Queue(maxsize=2) of frame_queue and of result_queue
TRY1_FRAME_QUEUE_SIZE == 2
TRY1_RESULT_QUEUE_SIZE == 2

\* the processing threads start_inspection creates, one per session
Try1Threads == 1..MaxOpens

\* the texts skip_var takes
SkipTexts == {"-4", "0", "1", "2", "abc"}

\* a % n of Python for n # 0: the result has the sign of n
PyMod(a, n) == IF n > 0 THEN a % n ELSE 0 - ((0 - a) % (0 - n))

\* the label of the state built from a result with n boxes
Try1Label(n) ==
    CASE n = 0 -> "No Detection"
      [] n = 1 -> "Defect"
      [] OTHER -> "Multiple Defects"

\* self.result_queue.full()
result_queue_full(q) == Len(q) >= TRY1_RESULT_QUEUE_SIZE

\* Queue.put on a queue with room
queue_put(q, item) == Append(q, item)

\* process_frames thread t is at the step pc
Try1At(t, pc) == try1.pt[t].pc = pc

\* lines 454-498 with the model loaded and a camera that opens: running is
\* set, clear_queues, and the threads of the session are started
try1_start_inspection ==
    /\ ~try1.running
    /\ try1.sessions < MaxOpens
    /\ try1' = [try1 EXCEPT !.running = TRUE,
                            !.frame_queue = <<>>,
                            !.result_queue = <<>>,
                            !.sessions = @ + 1,
                            !.pt[try1.sessions + 1].pc = "t_loop"]
    /\ UNCHANGED besideTry1

\* lines 504-518: running is cleared, the capture released, clear_queues
try1_stop_inspection ==
    /\ try1.running
    /\ try1' = [try1 EXCEPT !.running = FALSE,
                            !.frame_queue = <<>>,
                            !.result_queue = <<>>]
    /\ UNCHANGED besideTry1

\* lines 536-556: one read of capture_frames and the put of the copy when
\* frame_queue is not full
try1_capture_frames ==
    /\ try1.running
    /\ try1.captured < MaxReads
    /\ try1' = [try1 EXCEPT !.captured = @ + 1,
                            !.frame_queue =
                                IF Len(@) >= TRY1_FRAME_QUEUE_SIZE THEN @
                                ELSE Append(@, try1.captured + 1)]
    /\ UNCHANGED besideTry1

\* line 577: while self.running
Try1CheckRunning(t) ==
    /\ Try1At(t, "t_loop")
    /\ try1' = [try1 EXCEPT !.pt[t].pc = IF try1.running THEN "t_get" ELSE "done"]
    /\ UNCHANGED besideTry1

\* lines 580-583: frame_queue.get(timeout=0.5); queue.Empty continues
Try1GetFrame(t) ==
    /\ Try1At(t, "t_get")
    /\ try1' = IF try1.frame_queue = <<>>
               THEN [try1 EXCEPT !.pt[t].pc = "t_loop"]
               ELSE [try1 EXCEPT !.frame_queue = Tail(@),
                                 !.pt[t] = [pc |-> "t_skip", frame |-> Head(try1.frame_queue),
                                            info |-> "none", path |-> "none"]]
    /\ UNCHANGED besideTry1

\* lines 586-596: the skip counter, the forward of a skipped frame and the
\* forward of a frame while processing is disabled, both with
\* self.current_detection; a modulus by zero raises and the except clause
\* of line 632 continues the loop
Try1SkipLogic(t) ==
    /\ Try1At(t, "t_skip")
    /\ IF try1.frame_skip_ratio = 0
       THEN try1' = [try1 EXCEPT !.pt[t].pc = "t_loop", !.pt[t].path = "raised"]
       ELSE LET skip == PyMod(try1.skip_frames + 1, try1.frame_skip_ratio)
            IN  try1' = [try1 EXCEPT
                    !.skip_frames = skip,
                    !.pt[t] =
                        IF skip # 0 /\ try1.frame_skip_ratio > 1
                        THEN [@ EXCEPT !.pc = "t_full", !.info = try1.current_detection,
                                       !.path = "skipped"]
                        ELSE IF ~try1.processing_enabled
                        THEN [@ EXCEPT !.pc = "t_full", !.info = try1.current_detection,
                                       !.path = "disabled"]
                        ELSE [@ EXCEPT !.pc = "t_infer"]]
    /\ UNCHANGED besideTry1

\* lines 600-630 and 694-705: the model returns n boxes; with boxes,
\* extract_detection_info builds the state and stores it in
\* self.current_detection; without, a "No Detection" state is built for the
\* queue only
Try1Infer(t, n) ==
    /\ Try1At(t, "t_infer")
    /\ try1' = [try1 EXCEPT
            !.current_detection = IF n > 0 THEN Try1Label(n) ELSE @,
            !.inferred = Try1Label(n),
            !.pt[t] = [@ EXCEPT !.pc = "t_full", !.info = Try1Label(n), !.path = "inferred"]]
    /\ UNCHANGED besideTry1

\* lines 589, 595, 618 and 629: if not self.result_queue.full(); a result
\* that finds the queue full is dropped
Try1CheckFull(t) ==
    /\ Try1At(t, "t_full")
    /\ try1' = IF result_queue_full(try1.result_queue)
               THEN [try1 EXCEPT !.pt[t].pc = "t_loop", !.pt[t].path = "dropped"]
               ELSE [try1 EXCEPT !.pt[t].pc = "t_put"]
    /\ UNCHANGED besideTry1

\* lines 590, 596, 619 and 630: self.result_queue.put(...), which waits
\* while the queue is full
Try1Put(t) ==
    /\ Try1At(t, "t_put")
    /\ Len(try1.result_queue) < TRY1_RESULT_QUEUE_SIZE
    /\ try1' = [try1 EXCEPT
            !.produced = @ + 1,
            !.result_queue = queue_put(@, [frame |-> try1.pt[t].frame, info |-> try1.pt[t].info,
                                           seq |-> try1.produced + 1]),
            !.pt[t].pc = "t_loop"]
    /\ UNCHANGED besideTry1

\* lines 718-753: one tick of update_gui while running: get_nowait of the
\* oldest result when the queue is not empty
try1_update_gui ==
    /\ try1.running
    /\ try1.result_queue # <<>>
    /\ try1' = [try1 EXCEPT !.result_queue = Tail(@),
                            !.shown = Append(@, Head(try1.result_queue).seq)]
    /\ UNCHANGED besideTry1

\* lines 362-369: int(self.skip_var.get()), 2 on ValueError
try1_update_frame_skip(text) ==
    /\ try1' = [try1 EXCEPT !.frame_skip_ratio = IF IsIntText(text) THEN IntOfText(text) ELSE 2]
    /\ UNCHANGED besideTry1

\* lines 371-375: self.processing_enabled = self.processing_var.get()
try1_toggle_processing(enabled) ==
    /\ try1' = [try1 EXCEPT !.processing_enabled = enabled]
    /\ UNCHANGED besideTry1

Try1Processing(t) ==
    \/ Try1CheckRunning(t)
    \/ Try1GetFrame(t)
    \/ Try1SkipLogic(t)
    \/ \E n \in 0..2 : Try1Infer(t, n)
    \/ Try1CheckFull(t)
    \/ Try1Put(t)

\* START INSPECTION pressed for the first time
Try1FirstSession == try1.sessions = 0 /\ try1_start_inspection

\* one session of the inspector, with every text of the spin box and every
\* number of boxes
NextTry1 ==
    \/ Try1FirstSession
    \/ try1_stop_inspection
    \/ try1_capture_frames
    \/ Try1Processing(1)
    \/ try1_update_gui
    \/ \E text \in SkipTexts : try1_update_frame_skip(text)
    \/ \E enabled \in BOOLEAN : try1_toggle_processing(enabled)

SpecTry1 == Init /\ [][NextTry1]_vars

\* a frame forwarded without inference by thread t is on its way to the queue
Try1Forwarding(t) ==
    /\ try1.pt[t].pc \in {"t_full", "t_put"}
    /\ try1.pt[t].path \in {"skipped", "disabled"}

\* C31: a frame that process_frames forwards without inference, skipped or
\* with processing disabled, is forwarded with the state of the most recent
\* inference, the "No Detection" state included.
C31_ForwardedCarriesLastInference ==
    [][\A t \in Try1Threads :
        (Try1SkipLogic(t) /\ Try1Forwarding(t)' /\ try1.inferred # "none")
            => try1'.pt[t].info = try1.inferred]_vars

\* the steps of process_frames thread t with a model that finds one box
Try1QueueSteps(t) ==
    \/ Try1CheckRunning(t)
    \/ Try1GetFrame(t)
    \/ Try1SkipLogic(t)
    \/ Try1Infer(t, 1)
    \/ Try1CheckFull(t)
    \/ Try1Put(t)

\* the sessions of the inspector, each with its own threads, with the skip
\* ratios 1 and 2
NextQueue ==
    \/ try1_start_inspection
    \/ try1_stop_inspection
    \/ try1_capture_frames
    \/ \E t \in Try1Threads : Try1QueueSteps(t)
    \/ try1_update_gui
    \/ \E text \in {"1", "2"} : try1_update_frame_skip(text)

SpecQueue == Init /\ [][NextQueue]_vars

\* the numbers of production in seq increase
Increasing(seq) == \A i, j \in 1..Len(seq) : i < j => seq[i] < seq[j]

\* the numbers of production of the results in the queue
QueuedSeqs == [i \in 1..Len(try1.result_queue) |-> try1.result_queue[i].seq]

\* C32: result_queue never holds more than 2 entries; a processing thread
\* reaches its put only with room in the queue, so that the put does not
\* wait, a result that finds the queue full being dropped; and update_gui
\* receives the results in the order of their production.
C32_ResultQueueBoundedOrdered ==
    /\ Len(try1.result_queue) <= 2
    /\ \A t \in Try1Threads :
            Try1At(t, "t_put") => Len(try1.result_queue) < TRY1_RESULT_QUEUE_SIZE
    /\ Increasing(try1.shown \o QueuedSeqs)

Try1FrameLostToZero ==
    /\ try1.frame_skip_ratio = 0
    /\ try1.pt[1].path = "raised"
    /\ Try1At(1, "t_loop")

----------------------------------------------------------------------------
(* PowerLineDetector.process_frame and the shapes of the detector output   *)

\* C33: process_frame returns a pair for every shape of the detector output:
\* no call that received the results of the detector, the empty list of
\* result objects included, is left by an exception.
C33_EveryResultShapeReturns == \A p \in ProcThreads : ~ProcAt(p, "pf_raised")

----------------------------------------------------------------------------
(* The row persisted for a detection                                       *)

\* C34: the row persisted for a detection has the label of the
\* DetectionState as joint_type and, as confidence, the confidence of the
\* state as a fraction between 0 and 1 (here in thousandths).
C34_RowHasLabelAndFraction ==
    hist.saved > 0 =>
        /\ hist.row.columns.joint_type = hist.row.of.label
        /\ hist.row.columns.confidence = PercentToFraction(hist.row.of.confidence)
        /\ hist.row.columns.confidence \in 0..1000

----------------------------------------------------------------------------
(* The skip cycle across a pause of processing                             *)

\* C35: no step of a process_frame call taken while processing_enabled is
\* false changes frame_counter, and between two calls the counter is at the
\* phase given by the frames received while processing was enabled, those
\* received while it was disabled not counted.
C35_DisabledFramesNotCounted ==
    /\ [](BetweenCalls => frame_counter % skip_factor = hist.received % skip_factor)
    /\ [][\A p \in ProcThreads :
            (~processing_enabled /\ procT'[p] # procT[p]) => frame_counter' = frame_counter]_vars

\* C35, its case: at interval 3 a frame was received with processing
\* disabled after two counted frames; after re-enabling, the next frame is
\* the third of the cycle and the detector is called on it
C35_ResumedAtThirdFrame ==
    /\ BetweenCalls
    /\ processing_enabled
    /\ skip_factor = 3
    /\ hist.paused_at = 2
    /\ hist.received = 3
    /\ frame_counter = 3
    /\ hist.invoked = {3}

----------------------------------------------------------------------------
(* The update_gui callbacks in Tk's after queue                            *)

\* the sessions of Spec with the pending update_gui callbacks run by the Tk
\* thread
NextGui == Next \/ update_gui

SpecGui == Init /\ [][NextGui]_vars

\* C36: at most one update_gui callback, hence at most one self-rescheduling
\* chain, is pending in the Tk event loop at any time, whatever the sequence
\* of start_inspection, stop_inspection and restart_inspection.
C36_OneUpdateGuiChain == gui_after <= 1

----------------------------------------------------------------------------
(* runcam.py: RunCamWifiLink2, called from one thread, with its workers    *)

\* everything that is not a field of the RunCamWifiLink2 object
besideRunCam ==
    <<camVars, guiVars, interval_var, procT, detVars, delivered, hist, yolo_result,
      extracted, setupVars, target_fps, try1, temp_runs>>

\* what cv2.VideoCapture(rtsp_url) does: it makes an opened capture, makes
\* one that is not opened, or raises
ConnectOutcomes == {"opened", "unopened", "raises"}

\* the caller is not inside a call and may make another
RunCamCallable == runcam.pc = "idle" /\ runcam.calls < MaxCalls

\* lines 14-32: connect
runcam_connect(outcome) ==
    /\ RunCamCallable
    /\ runcam' = [runcam EXCEPT
            !.calls = @ + 1,
            !.last_start = "none",
            !.cap = IF outcome = "raises" THEN @ ELSE outcome,
            !.is_connected = IF outcome = "opened" THEN TRUE ELSE @,
            !.since_stop = IF outcome = "opened" THEN FALSE ELSE @]
    /\ UNCHANGED besideRunCam

\* lines 34-44: start_stream
runcam_start_stream ==
    /\ RunCamCallable
    /\ runcam' = IF ~runcam.is_connected
                 THEN [runcam EXCEPT !.calls = @ + 1, !.last_start = "False"]
                 ELSE [runcam EXCEPT !.calls = @ + 1, !.last_start = "True",
                                     !.running = TRUE, !.workers = @ + 1]
    /\ UNCHANGED besideRunCam

\* lines 46-54: a worker evaluates `self.running and self.is_connected` and
\* returns when it is false; a read changes no field but current_frame
runcam_stream_worker ==
    /\ runcam.workers > 0
    /\ ~(runcam.running /\ runcam.is_connected)
    /\ runcam' = [runcam EXCEPT !.workers = @ - 1]
    /\ UNCHANGED besideRunCam

\* line 74: stop begins, self.running = False
runcam_stop ==
    /\ RunCamCallable
    /\ runcam' = [runcam EXCEPT !.calls = @ + 1, !.last_start = "none", !.running = FALSE,
                                !.pc = "stop_join"]
    /\ UNCHANGED besideRunCam

\* lines 75-76: self.thread.join(timeout=1.0) returns, the thread gone or not
runcam_stop_joined ==
    /\ runcam.pc = "stop_join"
    /\ runcam' = [runcam EXCEPT !.pc = "stop_release"]
    /\ UNCHANGED besideRunCam

\* a stop that releases the capture and leaves is_connected as it is
runcam_stop_keeps_connected ==
    /\ runcam.pc = "stop_release"
    /\ runcam' = [runcam EXCEPT !.pc = "idle",
                                !.cap = IF @ = "None" THEN @ ELSE "released",
                                !.since_stop = TRUE]
    /\ UNCHANGED besideRunCam

\* lines 78-82: self.cap.release(), self.is_connected = False, stop returns
runcam_stop_returns ==
    /\ runcam.pc = "stop_release"
    /\ runcam' = [runcam EXCEPT !.pc = "idle",
                                !.cap = IF @ = "None" THEN @ ELSE "released",
                                !.is_connected = FALSE,
                                !.since_stop = TRUE]
    /\ UNCHANGED besideRunCam

NextRunCam ==
    \/ \E outcome \in ConnectOutcomes : runcam_connect(outcome)
    \/ runcam_start_stream
    \/ runcam_stream_worker
    \/ runcam_stop
    \/ runcam_stop_joined
    \/ runcam_stop_returns

SpecRunCam == Init /\ [][NextRunCam]_vars

\* C38: start_stream starts a worker exactly when is_connected is true and
\* returns True then; otherwise it returns False and running stays False;
\* once stop() has returned, and until a connect() succeeds, is_connected
\* and running are False and start_stream returns False.
C38_StartStreamNeedsConnection ==
    /\ []((runcam.since_stop /\ runcam.pc = "idle") =>
            (~runcam.is_connected /\ ~runcam.running))
    /\ [][runcam_start_stream =>
            /\ runcam.is_connected <=> runcam'.workers = runcam.workers + 1
            /\ runcam.is_connected <=> runcam'.last_start = "True"
            /\ ~runcam.is_connected =>
                  (~runcam'.running /\ runcam'.workers = runcam.workers
                    /\ runcam'.last_start = "False")
            /\ runcam.since_stop => runcam'.last_start = "False"]_vars

\* C38, its case: stop() has returned, a connect() has failed since, and
\* start_stream, the last call made, has returned False with no worker left
\* and none started
C38_RefusedAfterStop ==
    /\ runcam.since_stop
    /\ runcam.pc = "idle"
    /\ runcam.cap = "unopened"
    /\ runcam.last_start = "False"
    /\ runcam.workers = 0
    /\ ~runcam.running

----------------------------------------------------------------------------
(* PowerLineDetector.simulate_temperature in two runs of the program       *)

\* everything that is not part of the two runs
besideTempRuns ==
    <<camVars, guiVars, interval_var, procT, detVars, delivered, hist, yolo_result,
      extracted, setupVars, target_fps, try1, runcam>>

\* the seeds random.seed is given; the generator has MaxSeed + 1 states
MaxSeed == 15

Seeds == 0..MaxSeed

\* the (class_id, confidence) arguments, the confidence in thousandths;
\* class 7 has no entry in TEMPERATURE_RANGES
TempArgs == {<<0, 900>>, <<3, 400>>, <<7, 400>>}

\* Config.TEMPERATURE_RANGES.get(class_id, (30.0, 60.0)), in units of
\* 0.0001 degree
TemperatureRange(class_id) ==
    CASE class_id = 0 -> <<350000, 650000>>
      [] class_id = 1 -> <<300000, 550000>>
      [] class_id = 2 -> <<320000, 600000>>
      [] class_id = 3 -> <<280000, 500000>>
      [] OTHER -> <<300000, 600000>>

\* a generator whose next state depends on the entropy of the run
AdvanceFromEntropy(g) ==
    [g EXCEPT !.state = (5 * g.state + 3 + g.entropy) % (MaxSeed + 1)]

\* the generator after one draw: the next state is a function of the state
\* (the Mersenne Twister of the module random, here a congruential
\* generator with MaxSeed + 1 states)
Advance(g) == [g EXCEPT !.state = (5 * g.state + 3) % (MaxSeed + 1)]

\* random.uniform(a, b) with the generator in state g: a + (b - a) * random()
Uniform(g, a, b) == a + ((b - a) * Advance(g).state) \div (MaxSeed + 1)

\* round(x, 1) of x units of 0.0001 degree, in tenths of a degree
RoundTenths(x) == (x + 500) \div 1000

\* lines 290-305 with the generator in state g: the temperature returned,
\* in tenths of a degree, and the generator after the call
simulate_temperature(enabled, g, class_id, confidence) ==
    IF ~enabled THEN [temp |-> 0, g |-> g]
    ELSE LET low == TemperatureRange(class_id)[1]
             high == TemperatureRange(class_id)[2]
             bias == confidence
             simulated_temp ==
                 Uniform(g, low + ((high - low) * bias) \div 10000,
                            high - ((high - low) * (1000 - bias)) \div 20000)
             g1 == Advance(g)
         IN  [temp |-> RoundTenths(simulated_temp + Uniform(g1, 0 - 5000, 5000)),
              g |-> Advance(g1)]

\* both runs seeded with the same seed, the simulation enabled or not
InitTemp ==
    /\ Constructed(ShippedConfig)
    /\ app = "built"
    /\ try1 = Try1Constructed
    /\ runcam = RunCamConstructed
    /\ \E seed \in Seeds, enabled \in BOOLEAN :
          temp_runs = [NoTempRuns EXCEPT !.enabled = enabled,
                                         !.rng[1].state = seed,
                                         !.rng[2].state = seed]
    /\ yolo_result = <<>>
    /\ extracted = NotExtracted

\* the next call of simulate_temperature, made with the same arguments in
\* both runs
SimulateTemperature(class_id, confidence) ==
    /\ Len(temp_runs.args) < MaxBoxes
    /\ LET r == [i \in 1..2 |->
                    simulate_temperature(temp_runs.enabled, temp_runs.rng[i], class_id,
                                         confidence)]
       IN  temp_runs' = [temp_runs EXCEPT
                !.args = Append(@, <<class_id, confidence>>),
                !.rng = [i \in 1..2 |-> r[i].g],
                !.out = [i \in 1..2 |-> Append(@[i], r[i].temp)]]
    /\ UNCHANGED besideTempRuns

NextTemp == \E a \in TempArgs : SimulateTemperature(a[1], a[2])

SpecTemp == InitTemp /\ [][NextTemp]_vars

====
